---------------------------- MODULE Spec2Model ----------------------------
(***************************************************************************)
(* Resilient multi-site scraping subsystem of FootballForecast:            *)
(* PlaywrightScraper (rate limiter, stealth session, retrying fetch, file  *)
(* cache with lru memo, durable-store fallback) and its four site          *)
(* scrapers FBref, OddsPortal, PhysioRoom and WhoScored.                   *)
(*                                                                         *)
(* Units: time in seconds; confidence in hundredths (0.8 = 80); xG and     *)
(* ratings in hundredths; possession in percent; momentum in thousandths;  *)
(* odds in ten-thousandths (2.00 = 20000).                                 *)
(*                                                                         *)
(* A payload (a Python dict) is a record [kv, players]: kv is the set of   *)
(* <<key, value>> pairs of its scalar entries, players the injury list of  *)
(* a PhysioRoom payload.  An Optional[Dict] is [some, v]: None is          *)
(* [some |-> FALSE].  Python truthiness of an Optional[Dict] is Truthy.    *)
(***************************************************************************)
EXTENDS Integers, Sequences, FiniteSets, TLC

VARIABLES
    site,                  \* which scraper class this instance is
    now,                   \* time.time()
    last_request_time,     \* PlaywrightScraper.last_request_time
    playwright,            \* self.playwright is not None
    browser,               \* self.browser: "none" | "open" | "closed"
    context,               \* self.context: "none" | "open" | "closed"
    proxy_pool,            \* self.proxy_pool
    current_proxy_index,   \* self.current_proxy_index
    cache,                 \* files of data/cache: key -> [cached_at, content]
    lru,                   \* functools.lru_cache of _get_cached_data: key -> result
    ret,                   \* the last operation: its call, its environment, its result
    obs,                   \* what the last operation did (passes, pages, writes)
    manager,               \* the ScraperManager: its scrapers and its run in progress
    flows                  \* the coroutines inside _make_request on this instance

vars == <<site, now, last_request_time, playwright, browser, context,
          proxy_pool, current_proxy_index, cache, lru, ret, obs, manager, flows>>

---------------------------------------------------------------------------
(* Bounds of the model *)

\* clock reading when the instance is constructed
StartTime == 4000
\* fixture and team identifiers are 1..MaxId
MaxId == 2
\* operations started on one instance
MaxOps == 2

Ids == 1..MaxId

(* Program constants *)

DefaultMinDelay == 45
WhoScoredMinDelay == 90
JitterLow == 5
JitterHigh == 15
RetryAttempts == 3
RetryMultiplier == 1
RetryWaitMin == 4
RetryWaitMax == 10
PauseLow == 1
PauseHigh == 3
DefaultCacheTtl == 1800
OddsTtl == 600
InjuriesTtl == 3600
WeatherTtl == 10800
StatsTtl == 86400

Sites == {"fbref", "oddsportal", "physioroom", "whoscored"}

HomeTeam == "Liverpool"
AwayTeam == "Manchester City"

---------------------------------------------------------------------------
(* Python values *)

None == [some |-> FALSE, v |-> [kv |-> {}, players |-> <<>>]]
Some(d) == [some |-> TRUE, v |-> d]
Dict(pairs) == [kv |-> pairs, players |-> <<>>]
EmptyDict == Dict({})

\* variant: the test is `is not None`, so {} counts as a value
WrongTruthy(x) == x.some

\* bool(x) of an Optional[Dict]: None and {} are falsy
Truthy(x) == x.some /\ (x.v.kv # {} \/ x.v.players # <<>>)

HasKey(d, k) == \E p \in d.kv : p[1] = k
\* dict.get(k, default)
Get(d, k, default) == IF HasKey(d, k) THEN (CHOOSE p \in d.kv : p[1] = k)[2] ELSE default

Max(a, b) == IF a >= b THEN a ELSE b
Min(a, b) == IF a <= b THEN a ELSE b

---------------------------------------------------------------------------
(* The instance as a record, threaded through the methods *)

NoObs == [passes |-> <<>>, sleeps |-> 0, sessions |-> 0, opened |-> 0,
          closed |-> 0, writes |-> 0, gets |-> 0, waits |-> <<>>,
          cleanups |-> 0, proxy |-> "none", fetches |-> 0,
          releases |-> [context |-> 0, browser |-> 0, playwright |-> 0]]

Self ==
    [site |-> site, now |-> now, last_request_time |-> last_request_time,
     playwright |-> playwright, browser |-> browser, context |-> context,
     proxy_pool |-> proxy_pool, current_proxy_index |-> current_proxy_index,
     cache |-> cache, lru |-> lru, obs |-> NoObs]

MinDelay(s) == IF s = "whoscored" THEN WhoScoredMinDelay ELSE DefaultMinDelay

\* asyncio.sleep(d)
Sleep(st, d) == [st EXCEPT !.now = @ + d]

\* tenacity's sleep between two attempts of a retried call
RetrySleep(st, d) == [Sleep(st, d) EXCEPT !.obs.waits = Append(@, d)]

\* variant: the limiter records the request and never sleeps
WrongRespectRateLimit(st, jitter) ==
    [st EXCEPT !.last_request_time = st.now,
               !.obs.passes = Append(@, st.now)]

\* variant: a retry of tenacity goes straight to the navigation, only the
\* first attempt of a call passes through the limiter
WrongRetryRespectRateLimit(st, jitter) ==
    IF st.obs.waits # <<>>
      THEN st
      ELSE LET time_since_last == st.now - st.last_request_time
               slept == time_since_last < MinDelay(st.site)
               s1 == IF slept
                       THEN Sleep(st, MinDelay(st.site) - time_since_last + jitter)
                       ELSE st
           IN [s1 EXCEPT !.last_request_time = s1.now,
                         !.obs.passes = Append(@, s1.now),
                         !.obs.sleeps = @ + (IF slept THEN 1 ELSE 0)]

\* _respect_rate_limit: jitter is the value of random.uniform(5, 15)
RespectRateLimit(st, jitter) ==
    LET time_since_last == st.now - st.last_request_time
        slept == time_since_last < MinDelay(st.site)
        s1 == IF slept
                THEN Sleep(st, MinDelay(st.site) - time_since_last + jitter)
                ELSE st
    IN [s1 EXCEPT !.last_request_time = s1.now,
                  !.obs.passes = Append(@, s1.now),
                  !.obs.sleeps = @ + (IF slept THEN 1 ELSE 0)]

\* variant: the cursor is left where it is
WrongGetProxyConfig(st) ==
    IF st.proxy_pool = <<>>
      THEN [st |-> st, proxy |-> "direct"]
      ELSE [st |-> st, proxy |-> st.proxy_pool[st.current_proxy_index + 1]]

\* _get_proxy_config: the configuration returned and the advanced cursor
GetProxyConfig(st) ==
    IF st.proxy_pool = <<>>
      THEN [st |-> st, proxy |-> "direct"]
      ELSE [st |-> [st EXCEPT !.current_proxy_index =
                              (st.current_proxy_index + 1) % Len(st.proxy_pool)],
            proxy |-> st.proxy_pool[st.current_proxy_index + 1]]

\* variant: the session is built on every call, whatever the instance holds
WrongInitBrowser(st, launch_ok) ==
    LET p == GetProxyConfig([st EXCEPT !.playwright = TRUE])
    IN IF launch_ok
         THEN [st |-> [p.st EXCEPT !.browser = "open", !.context = "open",
                                   !.obs.sessions = @ + 1,
                                   !.obs.proxy = p.proxy],
               raised |-> FALSE]
         ELSE [st |-> p.st, raised |-> TRUE]

\* variant: a call that finds the context closed builds the session again
WrongReopenInitBrowser(st, launch_ok) ==
    IF st.playwright /\ st.context # "closed"
      THEN [st |-> st, raised |-> FALSE]
      ELSE LET p == GetProxyConfig([st EXCEPT !.playwright = TRUE])
           IN IF launch_ok
                THEN [st |-> [p.st EXCEPT !.browser = "open", !.context = "open",
                                          !.obs.sessions = @ + 1,
                                          !.obs.proxy = p.proxy],
                      raised |-> FALSE]
                ELSE [st |-> p.st, raised |-> TRUE]

\* variant: a call that finds the engine started but no context builds the
\* session again
WrongRebuildInitBrowser(st, launch_ok) ==
    IF st.playwright /\ st.context # "none"
      THEN [st |-> st, raised |-> FALSE]
      ELSE LET p == GetProxyConfig([st EXCEPT !.playwright = TRUE])
           IN IF launch_ok
                THEN [st |-> [p.st EXCEPT !.browser = "open", !.context = "open",
                                          !.obs.sessions = @ + 1,
                                          !.obs.proxy = p.proxy],
                      raised |-> FALSE]
                ELSE [st |-> p.st, raised |-> TRUE]

\* _init_browser: launch_ok tells whether chromium.launch and new_context succeed
InitBrowser(st, launch_ok) ==
    IF st.playwright
      THEN [st |-> st, raised |-> FALSE]
      ELSE LET p == GetProxyConfig([st EXCEPT !.playwright = TRUE])
           IN IF launch_ok
                THEN [st |-> [p.st EXCEPT !.browser = "open", !.context = "open",
                                          !.obs.sessions = @ + 1,
                                          !.obs.proxy = p.proxy],
                      raised |-> FALSE]
                ELSE [st |-> p.st, raised |-> TRUE]

\* tenacity wait_exponential(multiplier, min, max) after the given attempt
WaitExponential(multiplier, lo, hi, attempt) ==
    Max(lo, Min(hi, multiplier * (2 ^ (attempt - 1))))

\* One attempt of _make_request and, when it raises, tenacity's retry.
\* env.fails: how many navigations (page.goto) raise before one succeeds;
\* env.jitter[i]: the jitter of the i-th pass through the rate limiter;
\* env.nav: the time a navigation takes; env.pause: random.uniform(1, 3).
RECURSIVE Attempt(_, _, _, _)
Attempt(st, env, fails, a) ==
    LET i == Len(st.obs.passes) + 1
        \* context.new_page() and page.goto(url) on the outcome of _init_browser
        Goto(ib) ==
            IF ~ib.raised /\ ib.st.context = "open"
              THEN [st |-> Sleep([ib.st EXCEPT !.obs.opened = @ + 1], env.nav),
                    loaded |-> a > fails]
              ELSE [st |-> ib.st, loaded |-> FALSE]
        \* the page is returned after the pause, or the attempt raises and
        \* tenacity waits and calls again until the third failure
        Outcome(n) ==
            IF n.loaded
              THEN [st |-> Sleep(n.st, env.pause), raised |-> FALSE, attempts |-> a]
              ELSE IF a < RetryAttempts
                     THEN Attempt(RetrySleep(n.st,
                                      WaitExponential(RetryMultiplier, RetryWaitMin,
                                                      RetryWaitMax, a)),
                                  env, fails, a + 1)
                     ELSE [st |-> n.st, raised |-> TRUE, attempts |-> a]
    IN Outcome(Goto(InitBrowser(RespectRateLimit(st, env.jitter[i]), env.launch_ok)))

\* variant: after the third failure the call returns without a page
WrongMakeRequest(st, env, fails) ==
    [Attempt([st EXCEPT !.obs.fetches = @ + 1], env, fails, 1) EXCEPT !.raised = FALSE]

\* _make_request under @retry(stop_after_attempt(3), wait_exponential(1, 4, 10)):
\* returns the page (raised = FALSE) or raises after the third failure
MakeRequest(st, env, fails) ==
    Attempt([st EXCEPT !.obs.fetches = @ + 1], env, fails, 1)

\* page.close()
ClosePage(st) == [st EXCEPT !.obs.closed = @ + 1]

---------------------------------------------------------------------------
(* The file cache *)

CacheKey(prefix, id) == <<prefix, id>>

\* variant: the file is returned whatever its age
WrongReadCacheFile(st, key, ttl) ==
    IF key \in DOMAIN st.cache THEN Some(st.cache[key].content) ELSE None

\* the body shared by _get_cached_data and _get_cached_data_ttl: read the
\* file, return its content while cache_age < ttl
ReadCacheFile(st, key, ttl) ==
    IF key \in DOMAIN st.cache /\ st.now - st.cache[key].cached_at < ttl
      THEN Some(st.cache[key].content)
      ELSE None

\* _get_cached_data_ttl
GetCachedDataTtl(st, key, ttl) == ReadCacheFile(st, key, ttl)

\* _get_cached_data under @functools.lru_cache(maxsize=1000): the first call
\* for a key on this instance reads the file; every later call returns the
\* remembered result (fewer than 1000 keys are in use, so nothing is evicted)
GetCachedData(st, key) ==
    IF key \in DOMAIN st.lru
      THEN [st |-> st, val |-> st.lru[key]]
      ELSE LET val == ReadCacheFile(st, key, DefaultCacheTtl)
           IN [st |-> [st EXCEPT !.lru = [k \in DOMAIN st.lru \cup {key} |->
                                           IF k = key THEN val ELSE st.lru[k]]],
               val |-> val]

\* _save_to_cache when open(cache_file, 'w') succeeds; when it raises, the
\* callers take their except path (env.write_ok is FALSE)
SaveToCache(st, key, data) ==
    [st EXCEPT !.cache = [k \in DOMAIN st.cache \cup {key} |->
                           IF k = key THEN [cached_at |-> st.now, content |-> data]
                                      ELSE st.cache[k]],
               !.obs.writes = @ + 1]

\* _get_ttl_seconds
GetTtlSeconds(data_type) ==
    CASE data_type = "odds" -> OddsTtl
      [] data_type = "injuries" -> InjuriesTtl
      [] data_type = "weather" -> WeatherTtl
      [] data_type \in {"advanced_stats", "match_stats", "team_form"} -> StatsTtl
      [] OTHER -> DefaultCacheTtl

\* get_fallback_data: durable is the answer of GET /api/scraped-data/<type>/<id>,
\* None when the status is not 200 or the request raises; write_ok tells
\* whether the cache file can be written (the except clause turns a failed
\* write into None)
GetFallbackData(st, data_type, identifier, durable, write_ok) ==
    LET key == CacheKey("fallback_" \o data_type, identifier)
        g == GetCachedData(st, key)
        s1 == [g.st EXCEPT !.obs.gets = @ + 1]
    IN IF Truthy(g.val)
         THEN [st |-> g.st, val |-> g.val]
         ELSE IF durable.some /\ write_ok
                THEN [st |-> SaveToCache(s1, key, durable.v), val |-> durable]
                ELSE [st |-> s1, val |-> None]

\* variant: the confidence argument is dropped for the dataclass default
WrongScrapedData(source, data_type, fixture_id, team_id, data, scraped_at, confidence) ==
    [source |-> source, data_type |-> data_type, fixture_id |-> fixture_id,
     team_id |-> team_id, data |-> data, scraped_at |-> scraped_at,
     confidence |-> 100]

\* variant: the identifier is stored in the field of the other scope
WrongScopeScrapedData(source, data_type, fixture_id, team_id, data, scraped_at, confidence) ==
    [source |-> source, data_type |-> data_type, fixture_id |-> team_id,
     team_id |-> fixture_id, data |-> data, scraped_at |-> scraped_at,
     confidence |-> confidence]

\* ScrapedData(...)
ScrapedData(source, data_type, fixture_id, team_id, data, scraped_at, confidence) ==
    [source |-> source, data_type |-> data_type, fixture_id |-> fixture_id,
     team_id |-> team_id, data |-> data, scraped_at |-> scraped_at,
     confidence |-> confidence]

\* the null identifier of a record
NoId == 0



\* an internal coroutine's outcome: it returned (a record, or None) or raised
Raised(st) == [st |-> st, rec |-> None, path |-> "raised", raised |-> TRUE]
Returned(st, rec, path) == [st |-> st, rec |-> Some(rec), path |-> path, raised |-> FALSE]

---------------------------------------------------------------------------
(* FBref *)

\* what the match page shows, already read as numbers: the cells of the xG
\* row of table#summary and of the possession and shots rows of table#stats
FBrefMatchPages ==
    { EmptyDict,
      Dict({<<"home_xg", 180>>, <<"away_xg", 90>>,
            <<"home_possession", 60>>, <<"away_possession", 40>>}),
      Dict({<<"home_possession", 60>>, <<"away_possession", 40>>}) }

\* the momentum score of _scrape_match_page, in thousandths:
\* (home_xg * 0.6 + home_possession * 0.004) - (away_xg * 0.6 + away_possession * 0.004)
MomentumScore(xg_data) ==
    (6 * Get(xg_data, "home_xg", 0) + 4 * Get(xg_data, "home_possession", 50))
    - (6 * Get(xg_data, "away_xg", 0) + 4 * Get(xg_data, "away_possession", 50))

\* the xg_data dict _scrape_match_page builds from the page
ExtractMatchXg(page) ==
    IF HasKey(page, "home_xg") /\ HasKey(page, "away_xg")
      THEN Dict(page.kv \cup {<<"momentum_score", MomentumScore(page)>>})
      ELSE page

FBrefDefaultXg ==
    Dict({<<"home_xg", 150>>, <<"away_xg", 120>>, <<"momentum_score", 100>>,
          <<"home_possession", 52>>, <<"away_possession", 48>>})

\* _get_fallback_xg_data
GetFallbackXgData(st, fixture_id, env) ==
    LET f == GetFallbackData(st, "match_stats", fixture_id, env.durable, env.write_ok)
    IN IF Truthy(f.val)
         THEN Returned(f.st,
                ScrapedData("fbref_fallback", "match_stats", fixture_id, NoId,
                    Dict({<<"home_xg", Get(f.val.v, "home_xg", 150)>>,
                          <<"away_xg", Get(f.val.v, "away_xg", 120)>>,
                          <<"momentum_score", Get(f.val.v, "momentum_score", 100)>>}),
                    f.st.now, 50),
                "durable")
         ELSE Returned(f.st,
                ScrapedData("fbref_default", "match_stats", fixture_id, NoId,
                    FBrefDefaultXg, f.st.now, 30),
                "default")

\* _scrape_match_page
ScrapeMatchPage(st, fixture_id, cache_key, env) ==
    LET r == MakeRequest(st, env, env.f2)
        xg_data == ExtractMatchXg(env.page)
        s1 == SaveToCache(r.st, cache_key, xg_data)
    IN IF r.raised
         THEN Raised(r.st)
         ELSE IF ~env.write_ok
           THEN Raised(ClosePage(r.st))
           ELSE Returned(ClosePage(s1),
                ScrapedData("fbref", "match_stats", fixture_id, NoId, xg_data,
                            s1.now, 100),
                "live")

\* FBrefScraper.scrape_match_xg
ScrapeMatchXg(st, fixture_id, env) ==
    LET cache_key == CacheKey("fbref_xg", fixture_id)
        g == GetCachedData(st, cache_key)
        r == MakeRequest(g.st, env, env.f1)
        m == ScrapeMatchPage(r.st, fixture_id, cache_key, env)
        fb(s) == GetFallbackXgData(s, fixture_id, env)
    IN IF Truthy(g.val)
         THEN Returned(g.st,
                ScrapedData("fbref", "match_stats", fixture_id, NoId, g.val.v,
                            g.st.now, 80),
                "cache")
         ELSE IF r.raised
           THEN fb(r.st)
           ELSE IF env.link
             THEN IF m.raised
                    THEN LET f == fb(m.st) IN [f EXCEPT !.st = ClosePage(f.st)]
                    ELSE [m EXCEPT !.st = ClosePage(m.st)]
             ELSE LET f == fb(r.st) IN [f EXCEPT !.st = ClosePage(f.st)]

\* what the squad page shows: the results column of table#matchlogs_for (at
\* most five rows) and the goals cells of table#stats_standard
FBrefTeamPages ==
    { [results |-> <<>>, goals |-> {}],
      [results |-> <<"W", "D", "L">>, goals |-> {}],
      [results |-> <<"W", "W">>,
       goals |-> {<<"goals_scored_season", 30>>, <<"goals_conceded_season", 12>>}] }

RECURSIVE FormString(_)
\* ''.join(recent_matches)
FormString(results) ==
    IF results = <<>> THEN "" ELSE Head(results) \o FormString(Tail(results))

RECURSIVE PointsOf(_)
\* sum(3 if r == 'W' else 1 if r == 'D' else 0 for r in recent_matches)
PointsOf(results) ==
    IF results = <<>> THEN 0
    ELSE (IF Head(results) = "W" THEN 3 ELSE IF Head(results) = "D" THEN 1 ELSE 0)
         + PointsOf(Tail(results))

\* the form_data dict _scrape_team_page builds from the page
ExtractTeamForm(page) ==
    Dict((IF page.results # <<>>
            THEN {<<"form_string", FormString(page.results)>>,
                  <<"last_5_results", page.results>>,
                  <<"points_last_5", PointsOf(page.results)>>}
            ELSE {}) \cup page.goals)

FBrefDefaultForm ==
    Dict({<<"form_string", "WWDLW">>, <<"points_last_5", 10>>,
          <<"goals_scored_last_5", 8>>, <<"goals_conceded_last_5", 4>>})

\* _get_fallback_form_data
GetFallbackFormData(st, team_id) ==
    Returned(st,
        ScrapedData("fbref_default", "team_form", NoId, team_id, FBrefDefaultForm,
                    st.now, 30),
        "default")

\* variant: when the search page loaded at the first attempt, the team page
\* is fetched once more before it is read
WrongScrapeTeamPage(st, team_id, cache_key, env) ==
    LET again == env.f1 = 0
        r0 == MakeRequest(st, env, 0)
        r == MakeRequest(IF again THEN ClosePage(r0.st) ELSE st, env, env.f2)
        form_data == ExtractTeamForm(env.page)
        s1 == SaveToCache(r.st, cache_key, form_data)
    IN IF again /\ r0.raised
         THEN Raised(r0.st)
         ELSE IF r.raised
           THEN Raised(r.st)
           ELSE IF ~env.write_ok
             THEN Raised(ClosePage(r.st))
             ELSE Returned(ClosePage(s1),
                    ScrapedData("fbref", "team_form", NoId, team_id, form_data,
                                s1.now, 100),
                    "live")

\* _scrape_team_page
ScrapeTeamPage(st, team_id, cache_key, env) ==
    LET r == MakeRequest(st, env, env.f2)
        form_data == ExtractTeamForm(env.page)
        s1 == SaveToCache(r.st, cache_key, form_data)
    IN IF r.raised
         THEN Raised(r.st)
         ELSE IF ~env.write_ok
           THEN Raised(ClosePage(r.st))
           ELSE Returned(ClosePage(s1),
                ScrapedData("fbref", "team_form", NoId, team_id, form_data,
                            s1.now, 100),
                "live")

\* FBrefScraper.scrape_team_form
ScrapeTeamForm(st, team_id, env) ==
    LET cache_key == CacheKey("fbref_form", team_id)
        g == GetCachedData(st, cache_key)
        r == MakeRequest(g.st, env, env.f1)
        m == ScrapeTeamPage(r.st, team_id, cache_key, env)
        fb(s) == GetFallbackFormData(s, team_id)
    IN IF Truthy(g.val)
         THEN Returned(g.st,
                ScrapedData("fbref", "team_form", NoId, team_id, g.val.v,
                            g.st.now, 80),
                "cache")
         ELSE IF r.raised
           THEN fb(r.st)
           ELSE IF env.link
             THEN IF m.raised
                    THEN LET f == fb(m.st) IN [f EXCEPT !.st = ClosePage(f.st)]
                    ELSE [m EXCEPT !.st = ClosePage(m.st)]
             ELSE LET f == fb(r.st) IN [f EXCEPT !.st = ClosePage(f.st)]

---------------------------------------------------------------------------
(* OddsPortal *)

\* the matches of re.findall(r"\b\d+\.\d{2}\b", content) on the odds page
OddsPages ==
    { [nums |-> <<20000, 30000>>],
      [nums |-> <<20000, 30000, 40000>>],
      [nums |-> <<20000, 30000, 40000, 19000, 31000, 42000>>] }

Abs(x) == IF x < 0 THEN -x ELSE x

\* the integer nearest to n / d (d > 0), a tie going to the even one
RoundDiv(n, d) ==
    LET q == Abs(n) \div d
        r == Abs(n) % d
        m == IF 2 * r > d \/ (2 * r = d /\ q % 2 = 1) THEN q + 1 ELSE q
    IN IF n < 0 THEN -m ELSE m

\* round(x, 3) of a value in ten-thousandths
Round3(x) == 10 * RoundDiv(x, 10)

\* the data dict scrape_fixture_odds builds from the numbers of the page
ExtractOdds(nums) ==
    LET opens == IF Len(nums) >= 3
                   THEN Dict({<<"home_open", nums[1]>>, <<"draw_open", nums[2]>>,
                              <<"away_open", nums[3]>>})
                   ELSE EmptyDict
        home_cur == IF Len(nums) >= 6 THEN nums[4]
                    ELSE (Get(opens, "home_open", 20000) * 97) \div 100
        draw_cur == IF Len(nums) >= 6 THEN nums[5]
                    ELSE Get(opens, "draw_open", 32000)
        away_cur == IF Len(nums) >= 6 THEN nums[6]
                    ELSE (Get(opens, "away_open", 35000) * 103) \div 100
        home_drift == Round3(home_cur - Get(opens, "home_open", home_cur))
        draw_drift == Round3(draw_cur - Get(opens, "draw_open", draw_cur))
        away_drift == Round3(away_cur - Get(opens, "away_open", away_cur))
    IN Dict(opens.kv \cup
            {<<"home_current", home_cur>>, <<"draw_current", draw_cur>>,
             <<"away_current", away_cur>>, <<"home_drift", home_drift>>,
             <<"draw_drift", draw_drift>>, <<"away_drift", away_drift>>,
             <<"drift_velocity",
               10 * RoundDiv(Abs(home_drift) + Abs(draw_drift) + Abs(away_drift), 30)>>})

OddsDefault ==
    Dict({<<"home_open", 20000>>, <<"draw_open", 32000>>, <<"away_open", 35000>>,
          <<"home_current", 19500>>, <<"draw_current", 32000>>,
          <<"away_current", 36500>>, <<"home_drift", -500>>, <<"draw_drift", 0>>,
          <<"away_drift", 1500>>, <<"drift_velocity", 670>>})

\* variant: the default at the confidence of the other scrapers' defaults
WrongFallbackOddsData(st, fixture_id) ==
    Returned(st,
        ScrapedData("oddsportal", "odds", fixture_id, NoId, OddsDefault, st.now, 30),
        "default")

\* _fallback_odds_data
FallbackOddsData(st, fixture_id) ==
    Returned(st,
        ScrapedData("oddsportal", "odds", fixture_id, NoId, OddsDefault, st.now, 50),
        "default")

\* OddsPortalScraper.scrape_fixture_odds
ScrapeFixtureOdds(st, fixture_id, env) ==
    LET cache_key == CacheKey("oddsportal_odds", fixture_id)
        ttl == GetTtlSeconds("odds")
        cached_data == GetCachedDataTtl(st, cache_key, ttl)
        r == MakeRequest(st, env, env.f1)
        o == MakeRequest(r.st, env, env.f2)
        data == ExtractOdds(env.page.nums)
        s1 == SaveToCache(o.st, cache_key, data)
        fb(s) == FallbackOddsData(s, fixture_id)
    IN IF Truthy(cached_data)
         THEN Returned(st,
                ScrapedData("oddsportal", "odds", fixture_id, NoId, cached_data.v,
                            st.now, 80),
                "cache")
         ELSE IF r.raised
           THEN fb(r.st)
           ELSE IF ~env.link
             THEN LET f == fb(r.st) IN [f EXCEPT !.st = ClosePage(f.st)]
             ELSE IF o.raised \/ ~env.write_ok
               THEN LET f == fb(o.st) IN [f EXCEPT !.st = ClosePage(f.st)]
               ELSE Returned(ClosePage(s1),
                      ScrapedData("oddsportal", "odds", fixture_id, NoId, data,
                                  s1.now, 90),
                      "live")

---------------------------------------------------------------------------
(* PhysioRoom *)

\* a list item or table row of the injuries page: the text before its first
\* '-' and the words of interest its lowercased text contains
Snippet(name, has) == [name |-> name, has |-> has]

InjuryWords == {"ankle", "hamstring", "knee", "groin", "calf", "shoulder", "back",
                "muscle", "fracture"}
SevereWords == {"acl", "fracture", "surgery", "rupture"}
ModerateWords == {"strain", "tear", "hamstring", "ankle"}
ReturnWords == {"return", "expected"}

PhysioPages ==
    { [items |-> <<>>],
      [items |-> << Snippet("Home", {}) >>],
      [items |-> << Snippet("Salah", {"hamstring", "return"}),
                    Snippet("News", {"surgery"}),
                    Snippet("Jota", {"knee"}) >>] }

\* the severity heuristic of scrape_team_injuries
Severity(t) ==
    IF t.has \cap SevereWords # {} THEN 4
    ELSE IF t.has \cap ModerateWords # {} THEN 3
    ELSE 2

\* the player entry built from an accepted snippet
PlayerOf(t) ==
    [name |-> t.name, issue |-> t, severity |-> Severity(t),
     expected |-> IF t.has \cap ReturnWords # {} THEN <<t>> ELSE <<>>]

RECURSIVE ExtractPlayers(_)
\* the players list scrape_team_injuries collects from the items
ExtractPlayers(items) ==
    IF items = <<>> THEN <<>>
    ELSE (IF Head(items).has \cap InjuryWords # {}
            THEN <<PlayerOf(Head(items))>> ELSE <<>>)
         \o ExtractPlayers(Tail(items))

RECURSIVE SeveritySum(_)
SeveritySum(players) ==
    IF players = <<>> THEN 0
    ELSE Head(players).severity + SeveritySum(Tail(players))

\* the data dict scrape_team_injuries builds
ExtractInjuries(team_name, items) ==
    LET players == ExtractPlayers(items)
    IN [kv |-> {<<"team_name", team_name>>, <<"count", Len(players)>>,
                <<"severity_sum", SeveritySum(players)>>},
        players |-> players]

InjuriesDefault == Dict({<<"count", 0>>, <<"severity_sum", 0>>})

\* variant: the exception of the fetch reaches the caller
WrongFallbackInjuries(st, team_id) == Raised(st)

\* _fallback_injuries
FallbackInjuries(st, team_id) ==
    Returned(st,
        ScrapedData("physioroom", "injuries", NoId, team_id, InjuriesDefault,
                    st.now, 40),
        "default")

\* PhysioRoomScraper.scrape_team_injuries
ScrapeTeamInjuries(st, team_id, env) ==
    LET cache_key == CacheKey("physioroom_inj", team_id)
        ttl == GetTtlSeconds("injuries")
        cached == GetCachedDataTtl(st, cache_key, ttl)
        r == MakeRequest(st, env, env.f1)
        d == MakeRequest(r.st, env, env.f2)
        data == ExtractInjuries(HomeTeam, env.page.items)
        s1 == SaveToCache(d.st, cache_key, data)
        fb(s) == FallbackInjuries(s, team_id)
    IN IF Truthy(cached)
         THEN Returned(st,
                ScrapedData("physioroom", "injuries", NoId, team_id, cached.v,
                            st.now, 80),
                "cache")
         ELSE IF r.raised
           THEN fb(r.st)
           ELSE IF ~env.link
             THEN LET f == fb(r.st) IN [f EXCEPT !.st = ClosePage(f.st)]
             ELSE IF d.raised \/ ~env.write_ok
               THEN LET f == fb(d.st) IN [f EXCEPT !.st = ClosePage(f.st)]
               ELSE Returned(ClosePage(s1),
                      ScrapedData("physioroom", "injuries", NoId, team_id, data,
                                  s1.now, IF data.players # <<>> THEN 90 ELSE 60),
                      "live")

---------------------------------------------------------------------------
(* WhoScored *)

\* what the team page shows, already read as numbers: the first rating element
\* within 0..10 and the figures of the stats and defensive sections
WhoScoredTeamPages ==
    { EmptyDict,
      Dict({<<"overall_rating", 720>>}),
      Dict({<<"overall_rating", 720>>, <<"avg_goals_per_game", 150>>,
            <<"avg_goals_conceded", 100>>, <<"clean_sheets", 4>>}) }

\* the momentum indicator of _scrape_team_ratings_page, in thousandths:
\* rating * 0.6 + min(goals * 0.5, 1.0) * 2.0 + max(0, 1.0 - conceded * 0.3) * 1.5
MomentumIndicator(ratings_data) ==
    LET base_rating == Get(ratings_data, "overall_rating", 650)
        goal_factor == Min(5 * Get(ratings_data, "avg_goals_per_game", 100), 1000)
        defensive_factor ==
            Max(0, 1000 - 3 * Get(ratings_data, "avg_goals_conceded", 150))
    IN 6 * base_rating + 2 * goal_factor + (3 * defensive_factor) \div 2

\* the ratings_data dict _scrape_team_ratings_page builds from the page
ExtractRatings(page) ==
    IF page.kv # {}
      THEN Dict(page.kv \cup {<<"momentum_indicator", MomentumIndicator(page)>>})
      ELSE page

RatingsDefault ==
    Dict({<<"overall_rating", 650>>, <<"avg_goals_per_game", 120>>,
          <<"avg_goals_conceded", 110>>, <<"avg_possession", 52>>,
          <<"momentum_indicator", 6800>>, <<"clean_sheets", 3>>})

\* _get_fallback_ratings_data
GetFallbackRatingsData(st, team_id) ==
    Returned(st,
        ScrapedData("whoscored_default", "team_ratings", NoId, team_id,
                    RatingsDefault, st.now, 30),
        "default")

\* _scrape_team_ratings_page
ScrapeTeamRatingsPage(st, team_id, cache_key, env) ==
    LET r == MakeRequest(st, env, env.f2)
        ratings_data == ExtractRatings(env.page)
        s1 == SaveToCache(r.st, cache_key, ratings_data)
    IN IF r.raised
         THEN Raised(r.st)
         ELSE IF ~env.write_ok
           THEN Raised(ClosePage(r.st))
           ELSE Returned(ClosePage(s1),
                ScrapedData("whoscored", "team_ratings", NoId, team_id,
                            ratings_data, s1.now, 100),
                "live")

\* page.wait_for_timeout(2000) after the search is submitted
SearchWait == 2

\* WhoScoredScraper.scrape_team_ratings; env.link: the search page has the
\* input and, after the search, a link naming the team
ScrapeTeamRatings(st, team_id, env) ==
    LET cache_key == CacheKey("whoscored_ratings", team_id)
        g == GetCachedData(st, cache_key)
        r == MakeRequest(g.st, env, env.f1)
        m == ScrapeTeamRatingsPage(Sleep(r.st, SearchWait), team_id, cache_key, env)
        fb(s) == GetFallbackRatingsData(s, team_id)
    IN IF Truthy(g.val)
         THEN Returned(g.st,
                ScrapedData("whoscored", "team_ratings", NoId, team_id, g.val.v,
                            g.st.now, 80),
                "cache")
         ELSE IF r.raised
           THEN fb(r.st)
           ELSE IF env.link
             THEN IF m.raised
                    THEN LET f == fb(m.st) IN [f EXCEPT !.st = ClosePage(f.st)]
                    ELSE [m EXCEPT !.st = ClosePage(m.st)]
             ELSE LET f == fb(r.st) IN [f EXCEPT !.st = ClosePage(f.st)]

\* the ratings found inside the fixture element of the live-scores page
WhoScoredMatchPages ==
    { [ratings |-> <<>>],
      [ratings |-> <<710>>],
      [ratings |-> <<710, 680, 650>>] }

\* the insights_data dict scrape_match_insights builds from the fixture element
ExtractInsights(home_team, away_team, ratings) ==
    Dict({<<"home_team", home_team>>, <<"away_team", away_team>>,
          <<"match_found", TRUE>>}
         \cup (IF Len(ratings) >= 1 THEN {<<"home_rating", ratings[1]>>} ELSE {})
         \cup (IF Len(ratings) >= 2 THEN {<<"away_rating", ratings[2]>>} ELSE {}))

InsightsDefault ==
    Dict({<<"home_rating", 650>>, <<"away_rating", 630>>, <<"match_found", FALSE>>,
          <<"prediction_confidence", 30>>})

\* _get_fallback_match_data
GetFallbackMatchData(st, fixture_id) ==
    Returned(st,
        ScrapedData("whoscored_default", "match_insights", fixture_id, NoId,
                    InsightsDefault, st.now, 30),
        "default")

\* WhoScoredScraper.scrape_match_insights; env.link: the live-scores page has
\* a fixture element naming both teams
ScrapeMatchInsights(st, fixture_id, env) ==
    LET cache_key == CacheKey("whoscored_match", fixture_id)
        g == GetCachedData(st, cache_key)
        r == MakeRequest(g.st, env, env.f1)
        insights_data == ExtractInsights(HomeTeam, AwayTeam, env.page.ratings)
        s1 == SaveToCache(r.st, cache_key, insights_data)
        fb(s) == GetFallbackMatchData(s, fixture_id)
    IN IF Truthy(g.val)
         THEN Returned(g.st,
                ScrapedData("whoscored", "match_insights", fixture_id, NoId,
                            g.val.v, g.st.now, 80),
                "cache")
         ELSE IF r.raised
           THEN fb(r.st)
           ELSE IF env.link /\ env.write_ok
             THEN Returned(ClosePage(s1),
                    ScrapedData("whoscored", "match_insights", fixture_id, NoId,
                                insights_data, s1.now, 70),
                    "live")
             ELSE LET f == fb(r.st) IN [f EXCEPT !.st = ClosePage(f.st)]

---------------------------------------------------------------------------
(* The environment of one operation *)

\* passes through the rate limiter in one operation: two fetches of three attempts
MaxPasses == 2 * RetryAttempts

Env(f1, link, f2, page, durable, launch_ok, t) ==
    [f1 |-> f1, link |-> link, f2 |-> f2, page |-> page, durable |-> durable,
     launch_ok |-> launch_ok, jitter |-> t.jitter, nav |-> t.nav, pause |-> t.pause,
     write_ok |-> TRUE]

\* the outcomes of a fetch that returns a page, as the number of navigations
\* that fail first
Recovering == {0}

\* The environments that differ in what the operation sees: every navigation of
\* the first fetch raises; the session cannot be built; the first page lacks
\* the link; the second fetch raises; both fetches return and the second page
\* is one of pages.
Envs(pages, durables, launches, timings) ==
    LET p0 == CHOOSE p \in pages : TRUE
        d0 == CHOOSE d \in durables : TRUE
    IN  { Env(RetryAttempts, FALSE, 0, p0, d, TRUE, t) :
            d \in durables, t \in timings }
        \cup { Env(0, FALSE, 0, p0, d, FALSE, t) :
            d \in durables, l \in launches \ {TRUE}, t \in timings }
        \cup { Env(f1, FALSE, 0, p0, d, TRUE, t) :
            f1 \in Recovering, d \in durables, t \in timings }
        \cup { Env(f1, TRUE, RetryAttempts, p0, d, TRUE, t) :
            f1 \in Recovering, d \in durables, t \in timings }
        \cup { Env(f1, TRUE, f2, p, d0, TRUE, t) :
            f1 \in Recovering, f2 \in Recovering, p \in pages, t \in timings }

\* answers of the durable store to GET /api/scraped-data/<data_type>/<id>: no
\* record (any status but 200, or no connection), a prior record in the shape
\* of the ingest body and, for match_stats, a flat prior record
DurableAnswers(data_type) ==
    { None, Some(Dict({<<"dataType", data_type>>, <<"confidence", 100>>})) }
    \cup (IF data_type = "match_stats"
            THEN { Some(Dict({<<"home_xg", 140>>, <<"away_xg", 110>>,
                              <<"momentum_score", 180>>})) }
            ELSE {})

\* chromium.launch can fail only while the session is still to be built
Launches(st) == IF st.playwright THEN {TRUE} ELSE {TRUE, FALSE}

\* timing of the scrape operations: the shortest waits the code allows
ScrapeTimings ==
    { [jitter |-> [i \in 1..MaxPasses |-> JitterLow], nav |-> 0, pause |-> PauseLow] }

---------------------------------------------------------------------------
(* State *)

NoRet == [n |-> 0, op |-> "none", id |-> NoId, env |-> <<>>, t0 |-> 0, key |-> <<>>,
          pre |-> <<>>, rec |-> None, path |-> "none"]

\* the instance as an operation finds it: the last permitted request, the
\* cache file and the lru entry of the key it reads (<<>> when there is none),
\* and the session handles
Pre(key) ==
    [last |-> last_request_time,
     file |-> IF key \in DOMAIN cache THEN <<cache[key]>> ELSE <<>>,
     memo |-> IF key \in DOMAIN lru THEN <<lru[key]>> ELSE <<>>,
     playwright |-> playwright, context |-> context]

\* the cache key an operation reads first
KeyPrefix(op) ==
    CASE op = "scrape_match_xg" -> "fbref_xg"
      [] op = "scrape_team_form" -> "fbref_form"
      [] op = "scrape_fixture_odds" -> "oddsportal_odds"
      [] op = "scrape_team_injuries" -> "physioroom_inj"
      [] op = "scrape_team_ratings" -> "whoscored_ratings"
      [] op = "scrape_match_insights" -> "whoscored_match"

OpsOf(s) ==
    CASE s = "fbref" -> {"scrape_match_xg", "scrape_team_form"}
      [] s = "oddsportal" -> {"scrape_fixture_odds"}
      [] s = "physioroom" -> {"scrape_team_injuries"}
      [] s = "whoscored" -> {"scrape_team_ratings", "scrape_match_insights"}

\* payloads an earlier run of the operation can have left in the cache file
Written(op) ==
    CASE op = "scrape_match_xg" -> {ExtractMatchXg(p) : p \in FBrefMatchPages}
      [] op = "scrape_team_form" -> {ExtractTeamForm(p) : p \in FBrefTeamPages}
      [] op = "scrape_fixture_odds" -> {ExtractOdds(p.nums) : p \in OddsPages}
      [] op = "scrape_team_injuries" ->
             {ExtractInjuries(HomeTeam, p.items) : p \in PhysioPages}
      [] op = "scrape_team_ratings" -> {ExtractRatings(p) : p \in WhoScoredTeamPages}
      [] op = "scrape_match_insights" ->
             {ExtractInsights(HomeTeam, AwayTeam, p.ratings) : p \in WhoScoredMatchPages}

\* data/cache when the instance is constructed: empty, or one file that an
\* earlier instance of the same scraper wrote for identifier 1 at StartTime
InitCaches(s) ==
    { <<>> } \cup
    UNION { { [k \in {CacheKey(KeyPrefix(op), 1)} |->
                 [cached_at |-> StartTime, content |-> c]] : c \in Written(op) } :
            op \in OpsOf(s) }

ProxyPools == { <<"proxy1:8080", "proxy2:8080">> }

\* a scraper instance as its constructor leaves it
NewInstance(s) ==
    [site |-> s, now |-> StartTime, last_request_time |-> 0, playwright |-> FALSE,
     browser |-> "none", context |-> "none",
     proxy_pool |-> CHOOSE pool \in ProxyPools : TRUE, current_proxy_index |-> 0,
     cache |-> <<>>, lru |-> <<>>, obs |-> NoObs]

\* an instant that has not come
Never == 0
NoStamps == [fbref_start |-> Never, fbref_end |-> Never,
             whoscored_start |-> Never, whoscored_end |-> Never]

\* ScraperManager(): the scrapers it owns; no run has started
NoManager ==
    [scrapers |-> [fbref |-> NewInstance("fbref"), whoscored |-> NewInstance("whoscored")],
     pc |-> "idle", runs |-> 0, kind |-> "none", id |-> NoId, results |-> <<>>,
     stamps |-> NoStamps, submitted |-> {}, raised |-> {}]

\* the coroutines that can be inside _make_request on one instance at a time
Flows == {1, 2}

\* no coroutine has called _make_request
NoFlows == [f \in Flows |-> [pc |-> "idle", at |-> Never, calls |-> 0]]

Init ==
    /\ site \in Sites
    /\ now = StartTime
    /\ last_request_time = 0
    /\ playwright = FALSE
    /\ browser = "none"
    /\ context = "none"
    /\ proxy_pool \in ProxyPools
    /\ current_proxy_index = 0
    /\ cache \in InitCaches(site)
    /\ lru = <<>>
    /\ ret = NoRet
    /\ obs = NoObs
    /\ manager = NoManager
    /\ flows = NoFlows

\* the instance and the observations after an operation returned r
Commit(op, id, env, r) ==
    /\ now' = r.st.now
    /\ last_request_time' = r.st.last_request_time
    /\ playwright' = r.st.playwright
    /\ browser' = r.st.browser
    /\ context' = r.st.context
    /\ current_proxy_index' = r.st.current_proxy_index
    /\ cache' = r.st.cache
    /\ lru' = r.st.lru
    /\ obs' = r.st.obs
    /\ ret' = [n |-> ret.n + 1, op |-> op, id |-> id, env |-> env, t0 |-> now,
               key |-> CacheKey(KeyPrefix(op), id),
               pre |-> Pre(CacheKey(KeyPrefix(op), id)),
               rec |-> r.rec, path |-> r.path]
    /\ UNCHANGED <<flows, manager, site, proxy_pool>>

CanStart(op) == op \in OpsOf(site) /\ ret.n < MaxOps

CallScrapeMatchXg ==
    /\ CanStart("scrape_match_xg")
    /\ \E id \in Ids :
         \E env \in Envs(FBrefMatchPages, DurableAnswers("match_stats"), Launches(Self),
                         ScrapeTimings) :
           \E r \in {ScrapeMatchXg(Self, id, env)} :
             Commit("scrape_match_xg", id, env, r)

CallScrapeTeamForm ==
    /\ CanStart("scrape_team_form")
    /\ \E id \in Ids :
         \E env \in Envs(FBrefTeamPages, DurableAnswers("team_form"), Launches(Self),
                         ScrapeTimings) :
           \E r \in {ScrapeTeamForm(Self, id, env)} :
             Commit("scrape_team_form", id, env, r)

CallScrapeFixtureOdds ==
    /\ CanStart("scrape_fixture_odds")
    /\ \E id \in Ids :
         \E env \in Envs(OddsPages, DurableAnswers("odds"), Launches(Self),
                         ScrapeTimings) :
           \E r \in {ScrapeFixtureOdds(Self, id, env)} :
             Commit("scrape_fixture_odds", id, env, r)

CallScrapeTeamInjuries ==
    /\ CanStart("scrape_team_injuries")
    /\ \E id \in Ids :
         \E env \in Envs(PhysioPages, DurableAnswers("injuries"), Launches(Self),
                         ScrapeTimings) :
           \E r \in {ScrapeTeamInjuries(Self, id, env)} :
             Commit("scrape_team_injuries", id, env, r)

CallScrapeTeamRatings ==
    /\ CanStart("scrape_team_ratings")
    /\ \E id \in Ids :
         \E env \in Envs(WhoScoredTeamPages, DurableAnswers("team_ratings"), Launches(Self),
                         ScrapeTimings) :
           \E r \in {ScrapeTeamRatings(Self, id, env)} :
             Commit("scrape_team_ratings", id, env, r)

CallScrapeMatchInsights ==
    /\ CanStart("scrape_match_insights")
    /\ \E id \in Ids :
         \E env \in Envs(WhoScoredMatchPages, DurableAnswers("match_insights"), Launches(Self),
                         ScrapeTimings) :
           \E r \in {ScrapeMatchInsights(Self, id, env)} :
             Commit("scrape_match_insights", id, env, r)

\* the TTL the cache check of the site's operations applies
AppliedTtl(s) ==
    CASE s = "oddsportal" -> GetTtlSeconds("odds")
      [] s = "physioroom" -> GetTtlSeconds("injuries")
      [] OTHER -> DefaultCacheTtl

\* instants the clock is advanced to between operations: around the expiry
\* of a file written at StartTime, and one TTL later
TickTimes(s) ==
    {StartTime + AppliedTtl(s) - 1, StartTime + AppliedTtl(s),
     StartTime + 2 * AppliedTtl(s)}

\* time passing between operations
Tick ==
    /\ ret.n < MaxOps
    /\ \E t \in TickTimes(site) :
         /\ t > now
         /\ now' = t
    /\ UNCHANGED <<flows, manager, site, last_request_time, playwright, browser, context, proxy_pool,
                   current_proxy_index, cache, lru, ret, obs>>

Next ==
    \/ CallScrapeMatchXg
    \/ CallScrapeTeamForm
    \/ CallScrapeFixtureOdds
    \/ CallScrapeTeamInjuries
    \/ CallScrapeTeamRatings
    \/ CallScrapeMatchInsights
    \/ Tick

Spec == Init /\ [][Next]_vars

---------------------------------------------------------------------------
(* Properties of the scrape operations (specification Spec) *)

Called == ret.n > 0
FixtureOps == {"scrape_match_xg", "scrape_fixture_odds", "scrape_match_insights"}

\* the record carries the identifier the operation was called with
CarriesId ==
    /\ ret.rec.some
    /\ IF ret.op \in FixtureOps
         THEN ret.rec.v.fixture_id = ret.id
         ELSE ret.rec.v.team_id = ret.id

\* the file of the operation's key, as the call found it
FileAtCall == ret.pre.file # <<>>
AgeAtCall == ret.t0 - ret.pre.file[1].cached_at
\* the call found a file younger than the TTL its cache check applies
ValidAtCall == FileAtCall /\ AgeAtCall < AppliedTtl(site)

\* every attempt of the first fetch raises: each navigation fails, or the
\* session cannot be built, or an earlier failure left the instance without a
\* usable context
FirstFetchRaises ==
    \/ ret.env.f1 = RetryAttempts
    \/ IF ret.pre.playwright THEN ret.pre.context # "open" ELSE ~ret.env.launch_ok

\* both fetches returned a page
BothPagesLoaded ==
    /\ ~FirstFetchRaises
    /\ ret.env.link
    /\ ret.env.f2 < RetryAttempts

\* C1: a scrape operation that finds no valid cache entry and whose every
\* page-fetch attempt raises returns a record (never None, never an exception)
\* that carries the requested identifier.
C1_AlwaysReturnsRecord ==
    (Called /\ ~ValidAtCall /\ FirstFetchRaises)
        => (ret.path # "raised" /\ ret.rec.some /\ CarriesId)

C1_Witness ==
    /\ Called /\ ~ValidAtCall /\ FirstFetchRaises
    /\ ret.op = "scrape_team_injuries" /\ ret.id = 2
    /\ ret.rec.some /\ ret.rec.v.team_id = 2
    /\ Len(obs.passes) = RetryAttempts

\* C3 (as claimed): a record is served from the cache only when the file was
\* younger than the applied TTL at the call; an entry at or beyond its TTL is
\* a miss.
C3_StaleNeverServed ==
    (Called /\ ret.path = "cache") => ValidAtCall

\* C5: on a cache hit the operation returns confidence 0.8 with the cached
\* payload and the requested identifier, and it passes no rate limiter,
\* builds no session, opens no page and writes no cache file.
C5_CacheHitFrame ==
    (Called /\ ret.path = "cache")
        => /\ ret.rec.some
           /\ ret.rec.v.confidence = 80
           /\ FileAtCall /\ ret.rec.v.data = ret.pre.file[1].content
           /\ CarriesId
           /\ ret.rec.v.scraped_at = ret.t0
           /\ obs.passes = <<>> /\ obs.sleeps = 0 /\ obs.sessions = 0
           /\ obs.opened = 0 /\ obs.writes = 0
           /\ last_request_time = ret.pre.last
           /\ (ret.key \in DOMAIN cache /\ cache[ret.key] = ret.pre.file[1])

C5_Witness ==
    /\ Called /\ ret.path = "cache" /\ ret.n = 2
    /\ ret.op = "scrape_team_ratings"
    /\ ret.rec.v.confidence = 80 /\ obs.passes = <<>>

\* the durable store holds a prior record for the identifier
DurableHolds == ret.env.durable.some

\* the live scrape yields no page or no extractable data
LiveMiss ==
    \/ FirstFetchRaises
    \/ ~ret.env.link
    \/ ret.env.f2 = RetryAttempts
    \/ (BothPagesLoaded /\ ret.op = "scrape_match_xg" /\ ret.env.page.kv = {})

\* C6 (as claimed): when the live scrape yields no page or no extractable data,
\* a prior record of the durable store is returned with confidence 0.5, and
\* the static default is returned only when the store has none.
C6_DurableBeforeDefault ==
    (Called /\ ret.path # "cache" /\ LiveMiss)
        => IF DurableHolds
             THEN ret.path = "durable" /\ ret.rec.v.confidence = 50
             ELSE ret.path = "default"

\* the second page loaded and shows none of the structures the operation
\* looks for
ExtractionEmpty ==
    /\ BothPagesLoaded
    /\ \/ ret.op = "scrape_match_xg" /\ ~HasKey(ret.env.page, "home_xg")
       \/ ret.op = "scrape_fixture_odds" /\ Len(ret.env.page.nums) < 3
       \/ ret.op = "scrape_team_ratings" /\ ret.env.page.kv = {}

\* C7 (as claimed): when the page loads without any expected structure the
\* operation goes on to the fallback chain: it returns no live-scrape record
\* and writes no cache file.
C7_EmptyExtractionFallsBack ==
    (Called /\ ret.path # "cache" /\ ExtractionEmpty)
        => (ret.path \in {"durable", "default"} /\ obs.writes = 0)

\* C8 (as claimed): confidences are ordered by tier: static default <= durable
\* fallback (0.5) <= cache-served (0.8) <= live scrape.
C8_ConfidenceOrdered ==
    Called =>
        /\ ret.path = "default" => ret.rec.v.confidence <= 50
        /\ ret.path = "durable" => ret.rec.v.confidence = 50
        /\ ret.path = "cache" => ret.rec.v.confidence = 80
        /\ ret.path = "live" => ret.rec.v.confidence >= 80

\* C9 (as claimed): every confidence lies in the tier of its path: live 1.0
\* (structural) or 0.8-0.9 (heuristic), cache 0.8-0.9, durable 0.5-0.6, static
\* default 0.3-0.4.
C9_ConfidenceTiers ==
    Called =>
        /\ ret.path = "live" => ret.rec.v.confidence \in {100} \cup 80..90
        /\ ret.path = "cache" => ret.rec.v.confidence \in 80..90
        /\ ret.path = "durable" => ret.rec.v.confidence \in 50..60
        /\ ret.path = "default" => ret.rec.v.confidence \in 30..40

\* C10: scrape_fixture_odds without a valid cache entry on a network where
\* every fetch attempt fails returns source oddsportal, data_type odds, the
\* requested fixture, confidence 0.5 and the static odds, and writes no cache
\* file.
C10_OddsUnreachable ==
    (Called /\ ret.op = "scrape_fixture_odds" /\ ~ValidAtCall /\ FirstFetchRaises)
        => /\ ret.rec.some
           /\ ret.rec.v.source = "oddsportal"
           /\ ret.rec.v.data_type = "odds"
           /\ ret.rec.v.fixture_id = ret.id /\ ret.rec.v.team_id = NoId
           /\ ret.rec.v.confidence = 50
           /\ {<<"home_open", 20000>>, <<"draw_open", 32000>>,
               <<"away_open", 35000>>, <<"home_drift", -500>>}
                  \subseteq ret.rec.v.data.kv
           /\ obs.writes = 0
           /\ (FileAtCall => (ret.key \in DOMAIN cache /\ cache[ret.key] = ret.pre.file[1]))
           /\ (~FileAtCall => ret.key \notin DOMAIN cache)

C10_Witness ==
    /\ Called /\ ret.op = "scrape_fixture_odds" /\ FirstFetchRaises
    /\ FileAtCall /\ AgeAtCall = OddsTtl
    /\ ret.rec.v.confidence = 50 /\ Len(obs.passes) = RetryAttempts

\* the injury page loaded and none of its items holds an injury keyword
NoInjurySnippet ==
    /\ ret.op = "scrape_team_injuries"
    /\ ret.path # "cache"
    /\ BothPagesLoaded
    /\ ExtractPlayers(ret.env.page.items) = <<>>

\* C11 (as claimed): scrape_team_injuries on an injury page without any
\* matching item returns a record whose payload is exactly players = [],
\* count = 0, severity_sum = 0 and whose confidence is 0.4.
C11_NoInjuriesRecord ==
    (Called /\ NoInjurySnippet)
        => /\ ret.rec.some
           /\ ret.rec.v.data = InjuriesDefault
           /\ ret.rec.v.confidence = 40

\* the data_type of the records an operation builds
DataTypeOf(op) ==
    CASE op = "scrape_match_xg" -> "match_stats"
      [] op = "scrape_team_form" -> "team_form"
      [] op = "scrape_fixture_odds" -> "odds"
      [] op = "scrape_team_injuries" -> "injuries"
      [] op = "scrape_team_ratings" -> "team_ratings"
      [] op = "scrape_match_insights" -> "match_insights"

\* C30 (as claimed): each scrape operation validates its cache entry against
\* the TTL of its own data_type (odds 10 min, injuries 1 h, match_stats and
\* team_form 24 h, every other type 30 min): a non-empty entry younger than
\* that TTL is a hit, one at or beyond it a miss.  Stated for the calls that
\* find no remembered result for the key, so that the file alone decides.
C30_OwnTtlApplied ==
    (Called /\ FileAtCall /\ Truthy(Some(ret.pre.file[1].content))
       /\ ret.pre.memo = <<>>)
        => (ret.path = "cache" <=> AgeAtCall < GetTtlSeconds(DataTypeOf(ret.op)))

\* C15 (as claimed): every page a scrape operation opened is closed when the
\* operation returns, on every exit path.
C15_PagesClosed ==
    Called => obs.opened = obs.closed

---------------------------------------------------------------------------
(* The fetch primitive on its own (specification SpecFetch): one flow calls
   _make_request again and again on one instance, time passing in between.
   obs accumulates over the calls. *)

\* calls of _make_request in one run
MaxFetches == 2

\* the jitter drawn at every pass, the time a navigation takes (none, or just
\* enough for the retry wait to end min_delay after the pass) and the pause
FetchTimings(s) ==
    { [jitter |-> [i \in 1..MaxPasses |-> j], nav |-> nav, pause |-> PauseLow] :
        j \in {JitterLow, JitterHigh},
        nav \in {0, MinDelay(s) - RetryWaitMin} }

InitFetch ==
    /\ site \in Sites
    /\ now = StartTime
    /\ last_request_time = 0
    /\ playwright = FALSE
    /\ browser = "none"
    /\ context = "none"
    /\ proxy_pool \in ProxyPools
    /\ current_proxy_index = 0
    /\ cache = <<>>
    /\ lru = <<>>
    /\ ret = NoRet
    /\ obs = NoObs
    /\ manager = NoManager
    /\ flows = NoFlows

\* await self._make_request(url): fails navigations raise before one loads
CallMakeRequest ==
    /\ ret.n < MaxFetches
    /\ \E fails \in 0..RetryAttempts, launch_ok \in Launches(Self),
          t \in FetchTimings(site) :
         LET env == Env(fails, FALSE, 0, EmptyDict, None, launch_ok, t)
             r == MakeRequest(Self, env, fails)
         IN /\ now' = r.st.now
            /\ last_request_time' = r.st.last_request_time
            /\ playwright' = r.st.playwright
            /\ browser' = r.st.browser
            /\ context' = r.st.context
            /\ current_proxy_index' = r.st.current_proxy_index
            /\ obs' = [obs EXCEPT !.passes = @ \o r.st.obs.passes,
                                  !.sleeps = @ + r.st.obs.sleeps,
                                  !.sessions = @ + r.st.obs.sessions,
                                  !.opened = @ + r.st.obs.opened,
                                  !.proxy = IF r.st.obs.sessions > 0
                                              THEN r.st.obs.proxy ELSE @]
            /\ ret' = [NoRet EXCEPT !.n = ret.n + 1, !.op = "_make_request",
                                    !.env = env, !.t0 = now,
                                    !.pre = Pre(<<>>),
                                    !.rec = [attempts |-> r.attempts,
                                             passes |-> Len(r.st.obs.passes),
                                             opened |-> r.st.obs.opened],
                                    !.path = IF r.raised THEN "raised" ELSE "page"]
    /\ UNCHANGED <<flows, manager, site, proxy_pool, cache, lru>>

\* how long after the last permitted request the flow comes back: just
\* before, exactly at and after min_delay
Arrivals(s) == {MinDelay(s) - 1, MinDelay(s), MinDelay(s) + 1, 2 * MinDelay(s)}

\* the flow does something else until its next fetch
Wait ==
    /\ 0 < ret.n /\ ret.n < MaxFetches
    /\ \E a \in Arrivals(site) :
         /\ last_request_time + a > now
         /\ now' = last_request_time + a
    /\ UNCHANGED <<flows, manager, site, last_request_time, playwright, browser, context, proxy_pool,
                   current_proxy_index, cache, lru, ret, obs>>

NextFetch ==
    \/ CallMakeRequest
    \/ Wait

SpecFetch == InitFetch /\ [][NextFetch]_vars

\* C2: on one instance running one flow, any two consecutive passes through
\* the rate limiter are permitted at least min_delay apart: 45 s for FBref,
\* OddsPortal and PhysioRoom, 90 s for WhoScored.
C2_PassesMinDelayApart ==
    \A i \in 1..(Len(obs.passes) - 1) :
        obs.passes[i + 1] - obs.passes[i] >=
            (IF site = "whoscored" THEN 90 ELSE 45)

\* two fetches on WhoScored, the second arriving before min_delay had passed:
\* the limiter slept, and some pass came exactly min_delay after the one before
C2_Witness ==
    /\ site = "whoscored" /\ ret.n = 2
    /\ Len(obs.passes) >= 4 /\ obs.sleeps >= 2
    /\ \E i \in 1..(Len(obs.passes) - 1) : obs.passes[i + 1] - obs.passes[i] = 90

Fetched == ret.op = "_make_request"

\* C22: one _make_request call makes at most 3 navigation attempts; an
\* attempt that succeeds ends the call with the page and no further attempt;
\* after the third consecutive failure the call raises, it never returns
\* without a page.
C22_AtMostThreeAttempts ==
    Fetched
        => /\ ret.rec.attempts <= 3
           /\ ret.rec.opened <= ret.rec.attempts
           /\ ret.path \in {"page", "raised"}
           /\ ret.path = "page"
                => (ret.env.f1 < 3 /\ ret.rec.attempts = ret.env.f1 + 1)
           /\ ret.path = "raised" => ret.rec.attempts = 3
           /\ (ret.env.f1 = 3 /\ ret.rec.opened = 3) => ret.path = "raised"

\* a call whose three navigations all failed: three pages were opened and
\* the call raised
C22_Witness ==
    /\ Fetched /\ ret.env.f1 = 3 /\ ret.env.launch_ok
    /\ ret.rec.attempts = 3 /\ ret.rec.opened = 3
    /\ ret.path = "raised"

\* C25: over any sequence of fetches on one instance at most one browser
\* session is constructed; every later _init_browser call returns without
\* constructing another, so every page is opened on that one context.
C25_OneSessionPerInstance ==
    /\ obs.sessions <= 1
    /\ obs.opened > 0 => obs.sessions = 1
    /\ context = "open" => obs.sessions = 1
    /\ (Fetched /\ ret.pre.playwright)
         => (context = ret.pre.context /\ browser # "closed")

\* two fetches that both returned a page after retries: four pages or more
\* were opened, on one session
C25_Witness ==
    /\ Fetched /\ ret.n = 2 /\ ret.path = "page"
    /\ obs.opened >= 4 /\ obs.sessions = 1
    /\ ret.pre.playwright /\ ret.pre.context = "open"

\* _init_browser returned normally in the last fetch: the instance held the
\* engine at the call, or the launch succeeded, or an attempt after a failed
\* launch found the engine set
InitBrowserReturned ==
    Fetched /\ (ret.pre.playwright \/ ret.env.launch_ok \/ ret.rec.attempts > 1)

\* C26 (as claimed): whenever _init_browser returns normally the instance
\* holds a usable browser context: after a failed construction a later call
\* constructs the session again.
C26_InitLeavesContext ==
    InitBrowserReturned => context = "open"

\* C29 (as claimed): consecutive permitted requests of one instance are at
\* least min_delay plus the least jitter (5 s) apart, also when the caller
\* arrives at or after min_delay.
C29_PassesJitterApart ==
    \A i \in 1..(Len(obs.passes) - 1) :
        obs.passes[i + 1] - obs.passes[i] >= MinDelay(site) + 5

---------------------------------------------------------------------------
(* The cache accessors on their own (specification SpecCache): reads and
   writes of data/cache by one instance whose cache directory starts empty. *)

\* accessor calls and clock advances in one run
MaxCacheSteps == 4

CachePayloads == { Dict({<<"home_xg", 140>>}), Dict({<<"home_xg", 210>>}) }
CacheKeys == { CacheKey("fbref_xg", id) : id \in Ids }
CacheTtls == { GetTtlSeconds("odds"), GetTtlSeconds("injuries") }

InitCache ==
    /\ site \in Sites
    /\ now = StartTime
    /\ last_request_time = 0
    /\ playwright = FALSE
    /\ browser = "none"
    /\ context = "none"
    /\ proxy_pool \in ProxyPools
    /\ current_proxy_index = 0
    /\ cache = <<>>
    /\ lru = <<>>
    /\ ret = NoRet
    /\ obs = NoObs
    /\ manager = NoManager
    /\ flows = NoFlows

CacheStep(op, key, ttl, val) ==
    ret' = [NoRet EXCEPT !.n = ret.n + 1, !.op = op, !.key = key, !.t0 = now,
                         !.env = [ttl |-> ttl], !.pre = Pre(key), !.rec = val]

\* self._get_cached_data(key)
CallGetCachedData ==
    /\ ret.n < MaxCacheSteps
    /\ \E key \in CacheKeys :
         LET g == GetCachedData(Self, key)
         IN /\ lru' = g.st.lru
            /\ CacheStep("_get_cached_data", key, DefaultCacheTtl, g.val)
    /\ UNCHANGED <<flows, manager, site, now, last_request_time, playwright, browser, context,
                   proxy_pool, current_proxy_index, cache, obs>>

\* self._get_cached_data_ttl(key, ttl)
CallGetCachedDataTtl ==
    /\ ret.n < MaxCacheSteps
    /\ \E key \in CacheKeys, ttl \in CacheTtls :
         CacheStep("_get_cached_data_ttl", key, ttl, GetCachedDataTtl(Self, key, ttl))
    /\ UNCHANGED <<flows, manager, site, now, last_request_time, playwright, browser, context,
                   proxy_pool, current_proxy_index, cache, lru, obs>>

\* self._save_to_cache(key, payload)
CallSaveToCache ==
    /\ ret.n < MaxCacheSteps
    /\ \E key \in CacheKeys, payload \in CachePayloads :
         /\ cache' = SaveToCache(Self, key, payload).cache
         /\ CacheStep("_save_to_cache", key, 0, None)
    /\ UNCHANGED <<flows, manager, site, now, last_request_time, playwright, browser, context,
                   proxy_pool, current_proxy_index, lru, obs>>

\* time passing between the calls
CacheTick ==
    /\ ret.n < MaxCacheSteps
    /\ \E d \in {1, OddsTtl, DefaultCacheTtl} : now' = now + d
    /\ ret' = [ret EXCEPT !.n = @ + 1, !.op = "tick"]
    /\ UNCHANGED <<flows, manager, site, last_request_time, playwright, browser, context, proxy_pool,
                   current_proxy_index, cache, lru, obs>>

NextCache ==
    \/ CallGetCachedData
    \/ CallGetCachedDataTtl
    \/ CallSaveToCache
    \/ CacheTick

SpecCache == InitCache /\ [][NextCache]_vars

\* C4 (as claimed): a get by either accessor, made while the file that
\* _save_to_cache wrote for the key is younger than the TTL, returns exactly
\* the payload of that file, whatever reads of the key came before the put.
C4_GetAfterPut ==
    (ret.op \in {"_get_cached_data", "_get_cached_data_ttl"}
       /\ ret.pre.file # <<>>
       /\ ret.t0 - ret.pre.file[1].cached_at < ret.env.ttl)
        => ret.rec = Some(ret.pre.file[1].content)

---------------------------------------------------------------------------
(* Persistence (specification SpecPersist): one instance hands records to
   persist_scraped_data and save_to_database. *)

PersistAttempts == 3
PersistMultiplier == 2
PersistWaitMin == 5
PersistWaitMax == 60
DeadLetterRetryAfter == 300

\* the transport failed: no HTTP status
TransportError == 0

\* what a call found out: the value it returned ("True", "False", "None") or
\* "raised", the POST requests it sent, whether the last one carried an
\* Authorization header, and the attempts tenacity made
Outcome(st, result, posts, authorized, attempts) ==
    [st |-> st, result |-> result, posts |-> posts, authorized |-> authorized,
     attempts |-> attempts]

\* One attempt of persist_scraped_data and, when it raises, tenacity's retry.
\* env.bearer: SCRAPER_BEARER_TOKEN is set; env.responses[a]: the status the
\* a-th POST meets, TransportError when the request itself raises
RECURSIVE PersistAttempt(_, _, _, _)
PersistAttempt(st, scraped_data, env, a) ==
    IF ~env.bearer
      THEN Outcome(st, "False", a - 1, FALSE, a)
      ELSE LET status == env.responses[a]
           IN IF status = 201
                THEN Outcome(st, "True", a, TRUE, a)
                ELSE IF status = 401
                  THEN Outcome(st, "False", a, TRUE, a)
                  ELSE IF a < PersistAttempts
                    THEN PersistAttempt(
                           RetrySleep(st, WaitExponential(PersistMultiplier, PersistWaitMin,
                                                          PersistWaitMax, a)),
                           scraped_data, env, a + 1)
                    ELSE Outcome(st, "raised", a, TRUE, a)

\* variant: a 401 is raised like any other failure, and so retried
WrongPersistScrapedData(st, scraped_data, env) ==
    PersistAttempt(st, scraped_data,
                   [env EXCEPT !.responses = [a \in DOMAIN @ |->
                                                IF @[a] = 401 THEN 500 ELSE @[a]]],
                   1)

\* persist_scraped_data under @retry(stop_after_attempt(3),
\* wait_exponential(2, 5, 60)): tenacity raises RetryError after the third
\* failure
PersistScrapedData(st, scraped_data, env) == PersistAttempt(st, scraped_data, env, 1)

\* f"failed_{data.source}_{data.fixture_id or data.team_id}_{int(time.time())}"
DeadLetterKey(data, t) ==
    <<"failed_" \o data.source,
      IF data.fixture_id # NoId THEN data.fixture_id ELSE data.team_id, t>>

DeadLetter(data, error, t) ==
    [data |-> data, error |-> error, retry_after |-> t + DeadLetterRetryAfter]

\* save_to_database: env.bearer or env.auth gives the token; env.responses[1]
\* is the status of the one POST; env.write_ok tells whether the dead-letter
\* file can be written
SaveToDatabase(st, data, env) ==
    LET token == env.bearer \/ env.auth
        status == env.responses[1]
        failed == status = TransportError \/ status >= 400
    IN IF ~failed
         THEN Outcome(st, "None", 1, token, 1)
         ELSE IF env.write_ok
           THEN Outcome(SaveToCache(st, DeadLetterKey(data, st.now),
                                    DeadLetter(data, status, st.now)),
                        "None", 1, token, 1)
           ELSE Outcome(st, "raised", 1, token, 1)

\* calls of the persistence operations in one run
MaxPersists == 2

\* records a scraper hands over: one of a fixture, one of a team
PersistRecords ==
    { ScrapedData("fbref", "match_stats", 1, NoId, FBrefDefaultXg, StartTime, 100),
      ScrapedData("fbref", "team_form", NoId, 1, FBrefDefaultForm, StartTime, 100) }

\* SCRAPER_BEARER_TOKEN and SCRAPER_AUTH_TOKEN: neither set, the first, the second
TokenEnvs ==
    { [bearer |-> FALSE, auth |-> FALSE], [bearer |-> TRUE, auth |-> FALSE],
      [bearer |-> FALSE, auth |-> TRUE] }

\* what the durable store answers to the POSTs of one call
PersistResponses ==
    { <<201, 201, 201>>, <<401, 201, 201>>, <<500, 201, 201>>,
      <<TransportError, 401, 201>>, <<500, TransportError, 201>>,
      <<500, 500, 401>>, <<500, TransportError, 500>>,
      <<TransportError, TransportError, TransportError>> }
SaveResponses == { <<201>>, <<401>>, <<500>>, <<TransportError>> }

PersistEnv(tokens, responses, write_ok, data) ==
    [bearer |-> tokens.bearer, auth |-> tokens.auth, responses |-> responses,
     write_ok |-> write_ok, data |-> data]

InitPersist ==
    /\ site \in Sites
    /\ now = StartTime
    /\ last_request_time = 0
    /\ playwright = FALSE
    /\ browser = "none"
    /\ context = "none"
    /\ proxy_pool \in ProxyPools
    /\ current_proxy_index = 0
    /\ cache = <<>>
    /\ lru = <<>>
    /\ ret = NoRet
    /\ obs = NoObs
    /\ manager = NoManager
    /\ flows = NoFlows

\* the instance and the observations after a persistence call ended as r
PersistStep(op, env, r) ==
    /\ now' = r.st.now
    /\ cache' = r.st.cache
    /\ obs' = r.st.obs
    /\ ret' = [NoRet EXCEPT !.n = ret.n + 1, !.op = op, !.env = env, !.t0 = now,
                            !.key = DeadLetterKey(env.data, r.st.now),
                            !.pre = Pre(DeadLetterKey(env.data, r.st.now)),
                            !.rec = [result |-> r.result, posts |-> r.posts,
                                     authorized |-> r.authorized,
                                     attempts |-> r.attempts],
                            !.path = r.result]
    /\ UNCHANGED <<flows, manager, site, last_request_time, playwright, browser, context, proxy_pool,
                   current_proxy_index, lru>>

\* await scraper.persist_scraped_data(record)
CallPersistScrapedData ==
    /\ ret.n < MaxPersists
    /\ \E tokens \in TokenEnvs, responses \in PersistResponses, data \in PersistRecords :
         LET env == PersistEnv(tokens, responses, TRUE, data)
         IN PersistStep("persist_scraped_data", env, PersistScrapedData(Self, data, env))

\* await scraper.save_to_database(record)
CallSaveToDatabase ==
    /\ ret.n < MaxPersists
    /\ \E tokens \in TokenEnvs, responses \in SaveResponses, write_ok \in BOOLEAN,
          data \in PersistRecords :
         LET env == PersistEnv(tokens, responses, write_ok, data)
         IN PersistStep("save_to_database", env, SaveToDatabase(Self, data, env))

NextPersist ==
    \/ CallPersistScrapedData
    \/ CallSaveToDatabase

SpecPersist == InitPersist /\ [][NextPersist]_vars

PersistOps == {"persist_scraped_data", "save_to_database"}
Persisted == ret.op \in PersistOps
HasToken == ret.env.bearer \/ ret.env.auth

\* the call left a dead-letter file holding the record, the failure and a
\* retry-after timestamp
DeadLettered ==
    /\ obs.writes >= 1
    /\ ret.key \in DOMAIN cache
    /\ cache[ret.key].content.data = ret.env.data
    /\ cache[ret.key].content.retry_after > now

\* every POST of a persist_scraped_data call fails with a transport error or
\* a status that is neither 201 nor 401
EveryPostFails ==
    /\ ret.op = "persist_scraped_data"
    /\ ret.env.bearer
    /\ \A a \in 1..PersistAttempts : ret.env.responses[a] \notin {201, 401}

\* C16 (as claimed): when every POST of persist_scraped_data fails, it makes
\* at most 3 attempts and then writes the record to a dead-letter entry with
\* the failure reason and a retry-after timestamp.
C16_ExhaustedIsDeadLettered ==
    (Persisted /\ EveryPostFails)
        => (ret.rec.attempts <= 3 /\ DeadLettered)

\* C17: persist_scraped_data returns success on HTTP 201 after that single
\* attempt, and on HTTP 401 returns failure after exactly one POST, without
\* a retry.
C17_CreatedAndUnauthorized ==
    (Persisted /\ ret.op = "persist_scraped_data" /\ ret.env.bearer)
        => /\ ret.env.responses[1] = 201
                => (ret.rec.result = "True" /\ ret.rec.posts = 1
                    /\ ret.rec.attempts = 1 /\ now = ret.t0)
           /\ ret.env.responses[1] = 401
                => (ret.rec.result = "False" /\ ret.rec.posts = 1
                    /\ ret.rec.attempts = 1 /\ now = ret.t0)

C17_Witness ==
    /\ Persisted /\ ret.op = "persist_scraped_data" /\ ret.env.bearer
    /\ ret.env.responses[1] = 401
    /\ ret.rec.result = "False" /\ ret.rec.posts = 1 /\ ret.n = 2

\* C18 (as claimed): a record whose persistence attempt receives HTTP 401 is
\* written to a dead-letter entry at once, after exactly one attempt.
C18_UnauthorizedIsDeadLettered ==
    (Persisted /\ ret.rec.posts >= 1 /\ ret.env.responses[1] = 401)
        => (ret.rec.posts = 1 /\ ret.rec.attempts = 1 /\ DeadLettered)

\* C19 (as claimed): without a configured bearer token a persistence call
\* sends no HTTP request, is not retried and reports failure, on both entry
\* points.
C19_NoTokenNoRequest ==
    (Persisted /\ ~HasToken)
        => (ret.rec.posts = 0 /\ ret.rec.attempts = 1 /\ ret.rec.result = "False")

\* C21 (as claimed): the waits between the successive attempts of one
\* persist_scraped_data call are strictly increasing: the wait before the
\* third attempt is longer than the wait before the second.
C21_WaitsStrictlyIncrease ==
    (Persisted /\ ret.op = "persist_scraped_data")
        => \A i \in 1..(Len(obs.waits) - 1) : obs.waits[i + 1] > obs.waits[i]

\* C20 (as claimed): a persistence failure never reaches the caller as an
\* exception: after a 401, a missing token or exhausted retries both
\* operations return normally, also when the dead-letter write fails.
C20_PersistNeverRaises ==
    Persisted => ret.rec.result # "raised"

---------------------------------------------------------------------------
(* The manager (specification SpecManager): ScraperManager runs FBref, then
   sleeps, then runs WhoScored, on the two instances it owns. *)

\* runs of scrape_match_data / scrape_team_data on one manager
MaxRuns == 1

MatchDelay == 30
TeamDelay == 45

\* variant: the next scraper is dispatched at once
WrongInterScraperDelay(kind) == 0

\* asyncio.sleep(30) in a match run, asyncio.sleep(45) in a team run
InterScraperDelay(kind) == IF kind = "match" THEN MatchDelay ELSE TeamDelay

\* hasattr(data, name) of a ScrapedData instance: its attributes are its fields
HasAttr(data, name) == name \in DOMAIN data

\* the key of each sub-operation's slot in the result map
SlotKey(kind, source) ==
    CASE kind = "match" /\ source = "fbref" -> "fbref_xg"
      [] kind = "match" /\ source = "whoscored" -> "whoscored_insights"
      [] kind = "team" /\ source = "fbref" -> "fbref_form"
      [] kind = "team" /\ source = "whoscored" -> "whoscored_ratings"

\* the instance a sub-operation runs on: the manager's scraper, at the
\* current time, on the shared data/cache directory
Scraper(source) ==
    [manager.scrapers[source] EXCEPT !.now = now, !.cache = cache, !.obs = NoObs]

\* a sub-operation whose finally block closes a page raises when that
\* page.close() raises
SubOperation(r, close_raises) ==
    IF close_raises /\ r.st.obs.closed > 0 THEN Raised(r.st) ELSE r

\* variant: the exception leaves the slot unset
WrongManagerSlot(m, key, r) ==
    IF r.raised
      THEN [m EXCEPT !.raised = @ \cup {key}]
      ELSE [m EXCEPT !.results = [k \in DOMAIN @ \cup {key} |->
                                    IF k = key THEN r.rec ELSE @[k]]]

\* one try/except block of a run: the slot is filled with the record, which
\* is saved when it has a save_to_database attribute, or with None when the
\* sub-operation raised
ManagerSlot(m, key, r) ==
    IF r.raised
      THEN [m EXCEPT !.results = [k \in DOMAIN @ \cup {key} |->
                                    IF k = key THEN None ELSE @[k]],
                     !.raised = @ \cup {key}]
      ELSE [m EXCEPT !.results = [k \in DOMAIN @ \cup {key} |->
                                    IF k = key THEN r.rec ELSE @[k]],
                     !.submitted = IF r.rec.some /\ HasAttr(r.rec.v, "save_to_database")
                                     THEN @ \cup {r.rec.v} ELSE @]

\* the environments of a sub-operation: one content of the second page, and
\* a durable store that holds nothing
ManagerEnvs(pages, st) ==
    Envs({CHOOSE p \in pages : TRUE}, {None}, Launches(st), ScrapeTimings)

\* data/cache when the manager is constructed: empty, or one file that an
\* earlier process wrote for a match's xG or a team's ratings
ManagerCaches ==
    LET files(prefix) ==
            { c \in InitCaches("fbref") \cup InitCaches("whoscored") :
                /\ c # <<>>
                /\ \A k \in DOMAIN c : k[1] = prefix /\ Truthy(Some(c[k].content)) }
    IN { <<>>, CHOOSE c \in files("fbref_xg") : TRUE,
         CHOOSE c \in files("whoscored_ratings") : TRUE }

\* the FBref sub-operation of a run
FBrefSubOperation(kind, id, env) ==
    IF kind = "match"
      THEN ScrapeMatchXg(Scraper("fbref"), id, env)
      ELSE ScrapeTeamForm(Scraper("fbref"), id, env)

\* the WhoScored sub-operation of a run
WhoScoredSubOperation(kind, id, env) ==
    IF kind = "match"
      THEN ScrapeMatchInsights(Scraper("whoscored"), id, env)
      ELSE ScrapeTeamRatings(Scraper("whoscored"), id, env)

InitManager ==
    /\ site = "fbref"
    /\ now = StartTime
    /\ last_request_time = 0
    /\ playwright = FALSE
    /\ browser = "none"
    /\ context = "none"
    /\ proxy_pool \in ProxyPools
    /\ current_proxy_index = 0
    /\ cache \in ManagerCaches
    /\ lru = <<>>
    /\ ret = NoRet
    /\ obs = NoObs
    /\ manager = NoManager
    /\ flows = NoFlows

\* scrape_match_data / scrape_team_data up to the inter-scraper sleep
ManagerFBref ==
    /\ manager.pc = "idle"
    /\ manager.runs < MaxRuns
    /\ \E kind \in {"match", "team"}, id \in Ids, close_raises \in BOOLEAN :
         \E env \in ManagerEnvs(IF kind = "match" THEN FBrefMatchPages
                                                   ELSE FBrefTeamPages,
                                Scraper("fbref")) :
         \E r \in {SubOperation(FBrefSubOperation(kind, id, env), close_raises)} :
           LET m == [manager EXCEPT !.pc = "sleep", !.runs = @ + 1, !.kind = kind,
                                    !.id = id, !.results = <<>>, !.submitted = {},
                                    !.raised = {},
                                    !.stamps = [NoStamps EXCEPT !.fbref_start = now,
                                                                !.fbref_end = r.st.now],
                                    !.scrapers.fbref = r.st]
           IN /\ manager' = ManagerSlot(m, SlotKey(kind, "fbref"), r)
              /\ now' = r.st.now
              /\ cache' = r.st.cache
    /\ UNCHANGED <<flows, site, last_request_time, playwright, browser, context, proxy_pool,
                   current_proxy_index, lru, ret, obs>>

\* await asyncio.sleep(...) between the scrapers
ManagerSleep ==
    /\ manager.pc = "sleep"
    /\ now' = now + InterScraperDelay(manager.kind)
    /\ manager' = [manager EXCEPT !.pc = "whoscored"]
    /\ UNCHANGED <<flows, site, last_request_time, playwright, browser, context, proxy_pool,
                   current_proxy_index, cache, lru, ret, obs>>

\* the WhoScored block of the run, and return results
ManagerWhoScored ==
    /\ manager.pc = "whoscored"
    /\ \E close_raises \in BOOLEAN :
         \E env \in ManagerEnvs(IF manager.kind = "match" THEN WhoScoredMatchPages
                                                           ELSE WhoScoredTeamPages,
                                Scraper("whoscored")) :
         \E r \in {SubOperation(WhoScoredSubOperation(manager.kind, manager.id, env),
                                 close_raises)} :
           LET m == [manager EXCEPT !.pc = "idle",
                                    !.stamps.whoscored_start = now,
                                    !.stamps.whoscored_end = r.st.now,
                                    !.scrapers.whoscored = r.st]
               done == ManagerSlot(m, SlotKey(manager.kind, "whoscored"), r)
           IN /\ manager' = done
              /\ now' = r.st.now
              /\ cache' = r.st.cache
              /\ ret' = [NoRet EXCEPT !.n = ret.n + 1,
                                      !.op = IF manager.kind = "match"
                                               THEN "scrape_match_data"
                                               ELSE "scrape_team_data",
                                      !.id = manager.id, !.t0 = manager.stamps.fbref_start,
                                      !.env = env, !.rec = done.results,
                                      !.path = "returned"]
    /\ UNCHANGED <<flows, site, last_request_time, playwright, browser, context, proxy_pool,
                   current_proxy_index, lru, obs>>

NextManager ==
    \/ ManagerFBref
    \/ ManagerSleep
    \/ ManagerWhoScored

SpecManager == InitManager /\ [][NextManager]_vars

ManagerOps == {"scrape_match_data", "scrape_team_data"}
RunReturned == ret.op \in ManagerOps /\ manager.pc = "idle"

\* C12: in a manager run the WhoScored sub-operation starts only after the
\* FBref sub-operation has completed and at least 30 s (45 s in a team run)
\* have passed since, whether FBref succeeded, failed or was served from the
\* cache.
C12_WhoScoredAfterDelay ==
    /\ manager.pc = "sleep" => manager.stamps.whoscored_start = Never
    /\ manager.stamps.whoscored_start # Never
         => /\ manager.stamps.fbref_end # Never
            /\ manager.stamps.fbref_start <= manager.stamps.fbref_end
            /\ manager.stamps.whoscored_start - manager.stamps.fbref_end >= 30
            /\ manager.kind = "team"
                 => manager.stamps.whoscored_start - manager.stamps.fbref_end >= 45

\* a match run whose FBref record came from the cache: WhoScored started
\* 30 s after it
C12_Witness ==
    /\ RunReturned /\ ret.op = "scrape_match_data"
    /\ ret.rec["fbref_xg"].some /\ ret.rec["fbref_xg"].v.confidence = 80
    /\ manager.stamps.fbref_end = manager.stamps.fbref_start
    /\ manager.stamps.whoscored_start = manager.stamps.fbref_end + 30

\* C13: an exception of one sub-operation never leaves the run and never
\* keeps the other sub-operation from running: the returned map holds exactly
\* one entry per source, None for a source that raised.
C13_OneSlotPerSource ==
    /\ manager.pc \in {"sleep", "whoscored"}
         => DOMAIN manager.results = {SlotKey(manager.kind, "fbref")}
    /\ RunReturned
         => /\ DOMAIN ret.rec = IF ret.op = "scrape_match_data"
                                  THEN {"fbref_xg", "whoscored_insights"}
                                  ELSE {"fbref_form", "whoscored_ratings"}
            /\ \A k \in manager.raised : ret.rec[k] = None
            /\ \A k \in DOMAIN ret.rec \ manager.raised : ret.rec[k].some
            /\ manager.stamps.whoscored_start # Never

\* a team run whose FBref sub-operation raised and whose WhoScored
\* sub-operation returned a record
C13_Witness ==
    /\ RunReturned /\ ret.op = "scrape_team_data"
    /\ manager.raised = {"fbref_form"}
    /\ ret.rec["fbref_form"] = None
    /\ ret.rec["whoscored_ratings"].some

\* C14 (as claimed): every non-null record in the result map of a run was
\* submitted to the persistence client during the run.
C14_ResultsSubmitted ==
    RunReturned
        => \A k \in DOMAIN ret.rec :
             ret.rec[k].some => ret.rec[k].v \in manager.submitted

---------------------------------------------------------------------------
(* Interleaved coroutines (specification SpecFlows): two coroutines call
   _make_request on one instance.  Each action runs one coroutine from one
   await to the next; the event loop resumes the coroutine whose sleep or
   navigation ends first. *)

\* calls of _make_request by one coroutine
MaxFlowCalls == 2

\* the time page.goto takes: a fast page, and the timeout of 30000 ms
NavTimes == {1, 30}

\* _respect_rate_limit up to its await: the time to sleep, 0 when it does
\* not sleep
SleepTime(st, jitter) ==
    LET time_since_last == st.now - st.last_request_time
    IN IF time_since_last < MinDelay(st.site)
         THEN MinDelay(st.site) - time_since_last + jitter
         ELSE 0

\* _respect_rate_limit after its await: self.last_request_time = time.time()
StampRequest(st) ==
    [st EXCEPT !.last_request_time = st.now, !.obs.passes = Append(@, st.now)]

\* the coroutine waits in asyncio.sleep or in page.goto
Pending(f) == flows[f].pc \in {"sleeping", "navigating", "pausing"}

\* the coroutine the event loop resumes next
NextEvent(f) ==
    /\ Pending(f)
    /\ \A g \in Flows : Pending(g) => flows[f].at <= flows[g].at

InitFlows ==
    /\ site \in Sites
    /\ now = StartTime
    /\ last_request_time = 0
    /\ playwright = FALSE
    /\ browser = "none"
    /\ context = "none"
    /\ proxy_pool \in ProxyPools
    /\ current_proxy_index = 0
    /\ cache = <<>>
    /\ lru = <<>>
    /\ ret = NoRet
    /\ obs = NoObs
    /\ manager = NoManager
    /\ flows = NoFlows

\* from the stamp of _respect_rate_limit to the await of page.goto: the
\* request is stamped at instant t, the session is there or built, the page
\* is opened and the navigation started
FlowNavigate(f, t, calls) ==
    \E nav \in NavTimes :
      \E ib \in {InitBrowser(StampRequest([Self EXCEPT !.now = t, !.obs = obs]), TRUE)} :
        /\ now' = t
        /\ last_request_time' = ib.st.last_request_time
        /\ playwright' = ib.st.playwright
        /\ browser' = ib.st.browser
        /\ context' = ib.st.context
        /\ current_proxy_index' = ib.st.current_proxy_index
        /\ obs' = [ib.st.obs EXCEPT !.opened = @ + 1]
        /\ flows' = [flows EXCEPT ![f] = [pc |-> "navigating", at |-> t + nav,
                                           calls |-> calls]]

\* a coroutine calls _make_request and runs to its first await: the sleep of
\* the rate limiter, or the navigation when the limiter lets it pass at once
FlowCall(f) ==
    /\ flows[f].pc = "idle"
    /\ flows[f].calls < MaxFlowCalls
    /\ \E jitter \in {JitterLow, JitterHigh} :
         \E sleep_time \in {SleepTime([Self EXCEPT !.obs = obs], jitter)} :
           IF sleep_time > 0
             THEN /\ flows' = [flows EXCEPT ![f] =
                                 [pc |-> "sleeping", at |-> now + sleep_time,
                                  calls |-> flows[f].calls + 1]]
                  /\ obs' = [obs EXCEPT !.sleeps = @ + 1]
                  /\ UNCHANGED <<now, last_request_time, playwright, browser, context,
                                 current_proxy_index>>
             ELSE FlowNavigate(f, now, flows[f].calls + 1)
    /\ UNCHANGED <<site, proxy_pool, cache, lru, ret, manager>>

\* asyncio.sleep of the rate limiter ends: the coroutine stamps the request
\* and goes on to the navigation
FlowWake(f) ==
    /\ flows[f].pc = "sleeping"
    /\ NextEvent(f)
    /\ FlowNavigate(f, flows[f].at, flows[f].calls)
    /\ UNCHANGED <<site, proxy_pool, cache, lru, ret, manager>>

\* page.goto ends: the coroutine sleeps random.uniform(1, 3)
FlowLoaded(f) ==
    /\ flows[f].pc = "navigating"
    /\ NextEvent(f)
    /\ now' = flows[f].at
    /\ flows' = [flows EXCEPT ![f].pc = "pausing", ![f].at = @ + PauseLow]
    /\ UNCHANGED <<site, last_request_time, playwright, browser, context, proxy_pool,
                   current_proxy_index, cache, lru, ret, obs, manager>>

\* return page
FlowReturn(f) ==
    /\ flows[f].pc = "pausing"
    /\ NextEvent(f)
    /\ now' = flows[f].at
    /\ flows' = [flows EXCEPT ![f].pc = "idle"]
    /\ ret' = [NoRet EXCEPT !.n = ret.n + 1, !.op = "_make_request", !.id = f,
                            !.t0 = now, !.path = "page"]
    /\ UNCHANGED <<site, last_request_time, playwright, browser, context, proxy_pool,
                   current_proxy_index, cache, lru, obs, manager>>

NextFlows ==
    \/ \E f \in Flows : FlowCall(f)
    \/ \E f \in Flows : FlowWake(f)
    \/ \E f \in Flows : FlowLoaded(f)
    \/ \E f \in Flows : FlowReturn(f)

SpecFlows == InitFlows /\ [][NextFlows]_vars

\* C28 (as claimed): when two scrape operations interleave on one instance,
\* any two navigations of the instance start at least min_delay apart and no
\* two are in flight at once.
C28_FlowsSerialized ==
    /\ \A i \in 1..(Len(obs.passes) - 1) :
         obs.passes[i + 1] - obs.passes[i] >= MinDelay(site)
    /\ ~(\A f \in Flows : flows[f].pc = "navigating")

---------------------------------------------------------------------------
(* Session lifetime (specification SpecSession): the scrapers of one manager
   fetch pages and are cleaned up, one by one or all at once.  The obs of
   each scraper accumulates over its lifetime. *)

\* fetches and cleanups in one run
MaxSessionSteps == 3

Handles == {"context", "browser", "playwright"}

\* await handle.close() / playwright.stop(): the call is counted; a call
\* that raises leaves the handle as it was
Release(st, handle, raises) ==
    LET s1 == [st EXCEPT !.obs.releases[handle] = @ + 1]
    IN IF raises THEN s1
       ELSE CASE handle = "context" -> [s1 EXCEPT !.context = "closed"]
              [] handle = "browser" -> [s1 EXCEPT !.browser = "closed"]
              [] handle = "playwright" -> s1

\* cleanup: raises names the handle whose close raises ("none": no call
\* raises).  The except clause swallows the exception, so the handles after
\* the raising one are not released; no handle is reset to None.
Cleanup(st, raises) ==
    LET s0 == [st EXCEPT !.obs.cleanups = @ + 1]
        has_context == s0.context # "none"
        s1 == IF has_context THEN Release(s0, "context", raises = "context") ELSE s0
        e1 == has_context /\ raises = "context"
        has_browser == ~e1 /\ s1.browser # "none"
        s2 == IF has_browser THEN Release(s1, "browser", raises = "browser") ELSE s1
        e2 == e1 \/ (has_browser /\ raises = "browser")
        has_playwright == ~e2 /\ s2.playwright
        s3 == IF has_playwright
                THEN Release(s2, "playwright", raises = "playwright") ELSE s2
        e3 == e2 \/ (has_playwright /\ raises = "playwright")
    IN [st |-> s3, raised |-> FALSE, error |-> e3]

\* the scrapers in the order of self.scrapers.items()
ScraperNames == <<"fbref", "whoscored">>

RECURSIVE CleanupFrom(_, _, _, _)
\* the loop of cleanup_all_scrapers from the i-th scraper on: stop tells
\* whether an error ends the loop
CleanupFrom(m, raises, i, stop) ==
    IF i > Len(ScraperNames) THEN m
    ELSE LET name == ScraperNames[i]
             r == Cleanup(m.scrapers[name], raises[name])
             m1 == [m EXCEPT !.scrapers[name] = r.st]
         IN IF stop /\ (r.raised \/ r.error)
              THEN m1
              ELSE CleanupFrom(m1, raises, i + 1, stop)

\* variant: the loop ends at the first scraper whose cleanup met an error
WrongCleanupAllScrapers(m, raises) == CleanupFrom(m, raises, 1, TRUE)

\* cleanup_all_scrapers: every scraper is cleaned up inside its own
\* try/except
CleanupAllScrapers(m, raises) == CleanupFrom(m, raises, 1, FALSE)

\* the manager's scraper at the current time; its obs is kept, but for the
\* passes and waits, which are those of one fetch
Held(m, source) ==
    [m.scrapers[source] EXCEPT !.now = now, !.cache = cache,
                               !.obs.passes = <<>>, !.obs.waits = <<>>]

\* the manager with every scraper at the current time
AllHeld == [manager EXCEPT !.scrapers = [s \in DOMAIN @ |-> Held(manager, s)]]

\* what can raise in a cleanup of the instance: nothing, or the close of a
\* handle it holds
CleanupRaises(st) ==
    {"none"} \cup (IF st.context # "none" THEN {"context"} ELSE {})
             \cup (IF st.browser # "none" THEN {"browser"} ELSE {})

InitSession ==
    /\ site = "fbref"
    /\ now = StartTime
    /\ last_request_time = 0
    /\ playwright = FALSE
    /\ browser = "none"
    /\ context = "none"
    /\ proxy_pool \in ProxyPools
    /\ current_proxy_index = 0
    /\ cache = <<>>
    /\ lru = <<>>
    /\ ret = NoRet
    /\ obs = NoObs
    /\ manager = NoManager
    /\ flows = NoFlows

\* the cleanups each scraper has seen
CleanupCounts(m) == [s \in DOMAIN m.scrapers |-> m.scrapers[s].obs.cleanups]

SessionStep(op, source, env, m, path) ==
    /\ manager' = m
    /\ ret' = [NoRet EXCEPT !.n = ret.n + 1, !.op = op, !.key = <<source>>,
                            !.env = env, !.t0 = now,
                            !.pre = CleanupCounts(manager),
                            !.rec = CleanupCounts(m), !.path = path]

\* await self.scrapers[source]._make_request(url)
SessionFetch ==
    /\ ret.n < MaxSessionSteps
    /\ \E source \in DOMAIN manager.scrapers :
         \E launch_ok \in Launches(manager.scrapers[source]), t \in ScrapeTimings :
           \E env \in {Env(0, FALSE, 0, EmptyDict, None, launch_ok, t)} :
             \E r \in {MakeRequest(Held(manager, source), env, 0)} :
               /\ SessionStep("_make_request", source, env,
                              [manager EXCEPT !.scrapers[source] = r.st],
                              IF r.raised THEN "raised" ELSE "page")
               /\ now' = r.st.now
    /\ UNCHANGED <<flows, site, last_request_time, playwright, browser, context, proxy_pool,
                   current_proxy_index, cache, lru, obs>>

\* await self.scrapers[source].cleanup()
SessionCleanup ==
    /\ ret.n < MaxSessionSteps
    /\ \E source \in DOMAIN manager.scrapers :
         \E raises \in CleanupRaises(manager.scrapers[source]) :
           \E r \in {Cleanup(Held(manager, source), raises)} :
             SessionStep("cleanup", source, [raises |-> raises],
                         [manager EXCEPT !.scrapers[source] = r.st],
                         IF r.raised THEN "raised" ELSE "returned")
    /\ UNCHANGED <<flows, site, now, last_request_time, playwright, browser, context,
                   proxy_pool, current_proxy_index, cache, lru, obs>>

\* await manager.cleanup_all_scrapers()
SessionCleanupAll ==
    /\ ret.n < MaxSessionSteps
    /\ \E raises \in [DOMAIN manager.scrapers -> {"none", "context", "browser"}] :
         /\ \A s \in DOMAIN manager.scrapers :
              raises[s] \in CleanupRaises(manager.scrapers[s])
         /\ \E m \in {CleanupAllScrapers(AllHeld, raises)} :
              SessionStep("cleanup_all_scrapers", "all", [raises |-> raises], m,
                          "returned")
    /\ UNCHANGED <<flows, site, now, last_request_time, playwright, browser, context,
                   proxy_pool, current_proxy_index, cache, lru, obs>>

NextSession ==
    \/ SessionFetch
    \/ SessionCleanup
    \/ SessionCleanupAll

SpecSession == InitSession /\ [][NextSession]_vars

\* C23: one cleanup_all_scrapers call invokes cleanup on every scraper of the
\* manager exactly once; an error met while one scraper is cleaned up is
\* swallowed and does not keep the others from being cleaned up, and the
\* call itself never raises.
C23_EveryScraperCleanedOnce ==
    ret.op = "cleanup_all_scrapers"
        => /\ ret.path = "returned"
           /\ \A s \in DOMAIN manager.scrapers : ret.rec[s] = ret.pre[s] + 1
           /\ \A s \in DOMAIN manager.scrapers :
                manager.scrapers[s].context # "none"
                    => manager.scrapers[s].obs.releases.context >= 1

\* a cleanup_all_scrapers call in which closing FBref's context raised:
\* WhoScored, which held a session, was cleaned up all the same
C23_Witness ==
    /\ ret.op = "cleanup_all_scrapers"
    /\ ret.env.raises["fbref"] = "context"
    /\ manager.scrapers["fbref"].context = "open"
    /\ manager.scrapers["whoscored"].context = "closed"
    /\ ret.rec["whoscored"] = 1

\* C24 (as claimed): over any sequence of fetches and cleanups each handle
\* of a scraper (context, browser, engine) is released at most once.
C24_ReleasedAtMostOnce ==
    \A s \in DOMAIN manager.scrapers :
        \A h \in Handles : manager.scrapers[s].obs.releases[h] <= 1

---------------------------------------------------------------------------
(* Cache writes that fail (specification SpecWrite): scrape operations whose
   pages load, on a data/cache directory that can refuse the write. *)

\* scrape operations on one instance
MaxWrites == 2

\* the scrape operation op
Scrape(op, st, id, env) ==
    CASE op = "scrape_match_xg" -> ScrapeMatchXg(st, id, env)
      [] op = "scrape_team_form" -> ScrapeTeamForm(st, id, env)
      [] op = "scrape_fixture_odds" -> ScrapeFixtureOdds(st, id, env)
      [] op = "scrape_team_injuries" -> ScrapeTeamInjuries(st, id, env)
      [] op = "scrape_team_ratings" -> ScrapeTeamRatings(st, id, env)
      [] op = "scrape_match_insights" -> ScrapeMatchInsights(st, id, env)

\* the contents of the page an operation extracts from
PagesOf(op) ==
    CASE op = "scrape_match_xg" -> FBrefMatchPages
      [] op = "scrape_team_form" -> FBrefTeamPages
      [] op = "scrape_fixture_odds" -> OddsPages
      [] op = "scrape_team_injuries" -> PhysioPages
      [] op = "scrape_team_ratings" -> WhoScoredTeamPages
      [] op = "scrape_match_insights" -> WhoScoredMatchPages

\* both pages load at the first attempt; the write of the cache file
\* succeeds or raises
WriteEnvs(op) ==
    { [Env(0, TRUE, 0, page, None, TRUE, t) EXCEPT !.write_ok = w] :
        page \in PagesOf(op), t \in ScrapeTimings, w \in BOOLEAN }

InitWrite ==
    /\ site \in Sites
    /\ now = StartTime
    /\ last_request_time = 0
    /\ playwright = FALSE
    /\ browser = "none"
    /\ context = "none"
    /\ proxy_pool \in ProxyPools
    /\ current_proxy_index = 0
    /\ cache = <<>>
    /\ lru = <<>>
    /\ ret = NoRet
    /\ obs = NoObs
    /\ manager = NoManager
    /\ flows = NoFlows

\* await scraper.<op>(id, ...)
CallScrape ==
    /\ ret.n < MaxWrites
    /\ \E op \in OpsOf(site), id \in Ids :
         \E env \in WriteEnvs(op) :
           \E r \in {Scrape(op, Self, id, env)} :
             Commit(op, id, env, r)

\* time passing between operations
WriteTick ==
    /\ 0 < ret.n /\ ret.n < MaxWrites
    /\ now < StartTime + AppliedTtl(site)
    /\ now' = StartTime + AppliedTtl(site)
    /\ UNCHANGED <<flows, manager, site, last_request_time, playwright, browser, context,
                   proxy_pool, current_proxy_index, cache, lru, ret, obs>>

NextWrite ==
    \/ CallScrape
    \/ WriteTick

SpecWrite == InitWrite /\ [][NextWrite]_vars

\* C27 (as claimed): when the write of the cache entry fails after a
\* successful live extraction, the failure is swallowed and the operation
\* returns the freshly scraped record with its live confidence, not a
\* fallback record and not an exception.
C27_WriteFailureSwallowed ==
    (Called /\ ret.path # "cache" /\ BothPagesLoaded /\ ~ret.env.write_ok)
        => (ret.path = "live" /\ ret.rec.some /\ ret.rec.v.confidence >= 60)

---------------------------------------------------------------------------
(* Proxy rotation: _get_proxy_config called again and again on one instance *)

\* entries of the pool (PROXY_1 .. PROXY_10 hold at most ten)
MaxPool == 3
\* calls of _get_proxy_config on one instance
MaxProxyCalls == 4

Proxies == {"proxy1:8080", "proxy2:8080", "proxy3:8080"}

\* _load_proxy_pool: the well-formed PROXY_i values in the order of i
LoadedPools == UNION { [1..n -> Proxies] : n \in 0..MaxPool }

InitProxy ==
    /\ site \in {"fbref"}
    /\ now = StartTime
    /\ last_request_time = 0
    /\ playwright = FALSE
    /\ browser = "none"
    /\ context = "none"
    /\ proxy_pool \in LoadedPools
    /\ current_proxy_index = 0
    /\ cache = <<>>
    /\ lru = <<>>
    /\ ret = NoRet
    /\ obs = NoObs
    /\ manager = NoManager
    /\ flows = NoFlows

\* self._get_proxy_config()
CallGetProxyConfig ==
    /\ ret.n < MaxProxyCalls
    /\ \E p \in {GetProxyConfig(Self)} :
         /\ current_proxy_index' = p.st.current_proxy_index
         /\ proxy_pool' = p.st.proxy_pool
         /\ ret' = [NoRet EXCEPT !.n = ret.n + 1, !.op = "_get_proxy_config",
                                 !.env = [proxy |-> p.proxy],
                                 !.pre = [index |-> current_proxy_index,
                                          pool |-> proxy_pool]]
    /\ UNCHANGED <<flows, manager, site, now, last_request_time, playwright, browser,
                   context, cache, lru, obs>>

NextProxy == CallGetProxyConfig

SpecProxy == InitProxy /\ [][NextProxy]_vars

\* C31: with a pool of n > 0 proxies the k-th call of _get_proxy_config
\* returns entry (k - 1) mod n and the cursor stays within 0..n-1; with an
\* empty pool it returns none and leaves the cursor alone; the pool is never
\* changed.
C31_RoundRobin ==
    /\ IF proxy_pool = <<>>
         THEN current_proxy_index = 0
         ELSE current_proxy_index \in 0..(Len(proxy_pool) - 1)
    /\ ret.op = "_get_proxy_config" =>
         /\ proxy_pool = ret.pre.pool
         /\ IF proxy_pool = <<>>
              THEN ret.env.proxy = "direct" /\ current_proxy_index = ret.pre.index
              ELSE ret.env.proxy = proxy_pool[((ret.n - 1) % Len(proxy_pool)) + 1]

\* the cursor has wrapped: call n + 1 on a pool of n distinct proxies
C31_Witness ==
    /\ ret.op = "_get_proxy_config"
    /\ Len(proxy_pool) = 3 /\ ret.n = 4
    /\ proxy_pool[1] # proxy_pool[2]
    /\ ret.env.proxy = proxy_pool[1]
    /\ current_proxy_index = 1

---------------------------------------------------------------------------
(* The records the scrape operations return (specification Spec) *)

\* the data types whose records are about a fixture; the others are about a team
FixtureTypes == {"match_stats", "odds", "match_insights"}
TeamTypes == {"team_form", "injuries", "team_ratings"}

\* C32: every record a scrape operation returns, on every path (cache, live,
\* durable fallback, static default), has a confidence within [0, 1] and
\* carries exactly the identifier of the scope of its data_type: fixture_id
\* set and team_id null for match_stats, odds and match_insights; team_id set
\* and fixture_id null for team_form, injuries and team_ratings.
C32_ScopedRecord ==
    (Called /\ ret.rec.some) =>
        /\ ret.rec.v.confidence \in 0..100
        /\ ret.rec.v.data_type \in FixtureTypes \cup TeamTypes
        /\ ret.rec.v.data_type \in FixtureTypes <=> ret.op \in FixtureOps
        /\ IF ret.rec.v.data_type \in FixtureTypes
             THEN ret.rec.v.fixture_id = ret.id /\ ret.rec.v.team_id = NoId
             ELSE ret.rec.v.team_id = ret.id /\ ret.rec.v.fixture_id = NoId

\* a record recovered from the durable store, about the fixture asked for
C32_Witness ==
    /\ Called /\ ret.rec.some
    /\ ret.path = "durable"
    /\ ret.rec.v.data_type = "match_stats"
    /\ ret.rec.v.fixture_id = ret.id /\ ret.id \in Ids
    /\ ret.rec.v.team_id = NoId
    /\ ret.rec.v.confidence = 50

---------------------------------------------------------------------------
(* Dead letters of save_to_database (specification SpecPersist) *)

\* the POST of a save_to_database call failed and the dead-letter file was written
SaveFailed ==
    /\ ret.op = "save_to_database"
    /\ ret.env.responses[1] = TransportError \/ ret.env.responses[1] >= 400
    /\ ret.env.write_ok

\* C33 (as claimed): every record whose persistence fails in save_to_database
\* stays recoverable: the failure creates a dead-letter entry of its own and
\* never overwrites the entry an earlier failure left for another record, two
\* failures for one source and identifier value within one second included.
C33_DeadLetterKept ==
    SaveFailed =>
        \/ ret.pre.file = <<>>
        \/ ret.pre.file[1].content.data = ret.env.data

---------------------------------------------------------------------------
(* One scraper's cleanup (specification SpecSession) *)

\* C34 (as claimed): within one cleanup() a failure releasing one resource
\* does not block the release of the others: when closing the context
\* raises, the browser is still closed and the engine is still stopped
\* before cleanup() returns.
C34_OthersStillReleased ==
    (ret.op = "cleanup" /\ ret.env.raises = "context") =>
        LET st == manager.scrapers[ret.key[1]]
        IN /\ ret.path = "returned"
           /\ st.browser # "none" => st.browser = "closed"
           /\ st.playwright => st.obs.releases.playwright >= 1

---------------------------------------------------------------------------
(* The injury heuristic (specification SpecInjuries): the extraction of
   scrape_team_injuries applied to the items of a detail page. *)

\* list items and table rows of one detail page
MaxItems == 2

\* the words of interest an item can contain
SnippetWords == {"knee", "acl", "fracture", "hamstring", "strain"}
Snippets == { Snippet("Salah", has) : has \in SUBSET SnippetWords }
ItemLists == UNION { [1..n -> Snippets] : n \in 0..MaxItems }

InitInjuries ==
    /\ site = "physioroom"
    /\ now = StartTime
    /\ last_request_time = 0
    /\ playwright = FALSE
    /\ browser = "none"
    /\ context = "none"
    /\ proxy_pool \in ProxyPools
    /\ current_proxy_index = 0
    /\ cache = <<>>
    /\ lru = <<>>
    /\ ret \in { [NoRet EXCEPT !.env = [items |-> items]] : items \in ItemLists }
    /\ obs = NoObs
    /\ manager = NoManager
    /\ flows = NoFlows

\* the loop over detail.query_selector_all('li, tr') and the data dict built
\* from the players it collects
CallExtractInjuries ==
    /\ ret.op = "none"
    /\ ret' = [ret EXCEPT !.n = 1, !.op = "extract_injuries",
                          !.rec = Some(ExtractInjuries(HomeTeam, ret.env.items))]
    /\ UNCHANGED <<flows, manager, site, now, last_request_time, playwright, browser,
                   context, proxy_pool, current_proxy_index, cache, lru, obs>>

NextInjuries == CallExtractInjuries

SpecInjuries == InitInjuries /\ [][NextInjuries]_vars

\* the severity the heuristic is said to give an accepted line
ClaimedSeverity(has) ==
    IF has \cap {"fracture", "surgery", "rupture"} # {} THEN 4
    ELSE IF has \cap {"strain", "tear", "hamstring", "ankle"} # {} THEN 3
    ELSE 2

\* C35 (as claimed): for every text PhysioRoom accepts as an injury line the
\* severity is 4 if the text contains fracture, surgery or rupture, otherwise
\* 3 if it contains strain, tear, hamstring or ankle, otherwise 2; and the
\* payload has count = number of players and severity_sum = the sum of their
\* severities, hence 2 * count <= severity_sum <= 4 * count.
C35_SeverityHeuristic ==
    ret.op = "extract_injuries" =>
        LET data == ret.rec.v
            count == Get(data, "count", 0)
            severity_sum == Get(data, "severity_sum", 0)
        IN /\ \A i \in 1..Len(data.players) :
                data.players[i].severity = ClaimedSeverity(data.players[i].issue.has)
           /\ count = Len(data.players)
           /\ severity_sum = SeveritySum(data.players)
           /\ 2 * count <= severity_sum /\ severity_sum <= 4 * count

---------------------------------------------------------------------------
(* Retries and the rate limiter (specification SpecFetch) *)

\* C36: every navigation attempt of a _make_request call, each retry of
\* tenacity included, first passes through the rate limiter: a call passes
\* as often as it attempts, consecutive attempts of one call are at least
\* min_delay (45 s, 90 s for WhoScored) apart, and the 4..10 s backoff is
\* never the spacing between two attempts.
C36_RetriesRateLimited ==
    Fetched =>
        LET n == Len(obs.passes)
            k == ret.rec.attempts
        IN /\ k >= 1 /\ n >= k
           /\ ret.rec.passes = k
           /\ ret.rec.opened <= k
           /\ ret.path = "raised" => k = 3
           /\ \A i \in (n - k + 1)..(n - 1) :
                /\ obs.passes[i + 1] - obs.passes[i] >=
                       (IF site = "whoscored" THEN 90 ELSE 45)
                /\ obs.passes[i + 1] - obs.passes[i] > 10

\* a fetch whose three navigations failed at once: the retries came 4 s after
\* the failures and were held back by the limiter, which slept three times
C36_Witness ==
    /\ Fetched /\ ret.n = 1 /\ ret.path = "raised"
    /\ ret.env.f1 = 3 /\ ret.env.nav = 0 /\ ret.env.launch_ok
    /\ ret.rec.attempts = 3 /\ Len(obs.passes) = 3
    /\ ret.rec.passes = 3 /\ obs.sleeps >= 2
    /\ obs.passes[2] - obs.passes[1] >= 45

---------------------------------------------------------------------------
(* The proxy of an instance (specification SpecFetch) *)

\* C37: on one instance the proxy cursor advances at most once, at the first
\* session construction: however many fetches and retries are made, every
\* page is opened on a session launched through the first entry of the pool.
C37_OneProxyPerInstance ==
    /\ current_proxy_index = (IF playwright THEN 1 % Len(proxy_pool) ELSE 0)
    /\ obs.opened > 0 => obs.proxy = proxy_pool[1]
    /\ obs.opened = 0 => obs.proxy = "none"

\* two fetches with retries after the session was built through the first
\* proxy: five pages or more, the cursor one step on
C37_Witness ==
    /\ Fetched /\ ret.n = 2
    /\ obs.opened >= 5 /\ obs.sessions = 1
    /\ obs.proxy = "proxy1:8080"
    /\ current_proxy_index = 1

---------------------------------------------------------------------------
(* The life of one instance (specification SpecLifetime): scrape operations
   and cleanup() called on it in any order. *)

\* scrape operations and cleanups on one instance
MaxLifeSteps == 3

\* the instance, with the cleanups it has seen so far
Living == [Self EXCEPT !.obs.cleanups = obs.cleanups]

\* the first fetch loads at once, at its last attempt or never; the second
\* loads at once or never
LifeEnvs(op, st) ==
    { Env(f1, TRUE, f2, page, None, launch_ok, t) :
        f1 \in {0, RetryAttempts - 1, RetryAttempts}, f2 \in {0, RetryAttempts},
        page \in PagesOf(op), launch_ok \in Launches(st), t \in ScrapeTimings }

InitLifetime ==
    /\ site \in Sites
    /\ now = StartTime
    /\ last_request_time = 0
    /\ playwright = FALSE
    /\ browser = "none"
    /\ context = "none"
    /\ proxy_pool \in ProxyPools
    /\ current_proxy_index = 0
    /\ cache = <<>>
    /\ lru = <<>>
    /\ ret = NoRet
    /\ obs = NoObs
    /\ manager = NoManager
    /\ flows = NoFlows

\* await scraper.<op>(id, ...)
LifeScrape ==
    /\ ret.n < MaxLifeSteps
    /\ \E op \in OpsOf(site), id \in Ids :
         \E env \in LifeEnvs(op, Self) :
           \E r \in {Scrape(op, Living, id, env)} :
             Commit(op, id, env, r)

\* await scraper.cleanup()
LifeCleanup ==
    /\ ret.n < MaxLifeSteps
    /\ \E raises \in CleanupRaises(Self) :
         \E r \in {Cleanup(Living, raises)} :
           /\ browser' = r.st.browser
           /\ context' = r.st.context
           /\ playwright' = r.st.playwright
           /\ obs' = r.st.obs
           /\ ret' = [NoRet EXCEPT !.n = ret.n + 1, !.op = "cleanup",
                                   !.env = [raises |-> raises], !.t0 = now,
                                   !.pre = Pre(<<>>), !.path = "returned"]
    /\ UNCHANGED <<flows, manager, site, now, last_request_time, proxy_pool,
                   current_proxy_index, cache, lru>>

NextLifetime ==
    \/ LifeScrape
    \/ LifeCleanup

SpecLifetime == InitLifetime /\ [][NextLifetime]_vars

ScrapeOps == UNION { OpsOf(s) : s \in Sites }

\* the last scrape operation built nothing, opened no page and returned a
\* cache-served or fallback record
NothingLive ==
    /\ obs.sessions = 0 /\ obs.opened = 0
    /\ ret.rec.some
    /\ ret.path \in {"cache", "durable", "default"}

\* C38 (as claimed): after cleanup() has run on an instance the session is
\* never rebuilt: on any later scrape operation _init_browser constructs
\* nothing, every fetch attempt uses the closed context, and the operation
\* can only return a cache-served or fallback record.
C38_NeverLiveAfterCleanup ==
    (ret.op \in ScrapeOps /\ obs.cleanups > 0) => NothingLive

\* C38 (amended): after a cleanup() that closed the context of a session,
\* the handles stay set and the context stays closed: on any later scrape
\* operation _init_browser constructs nothing, no page is opened, and the
\* operation returns a cache-served or fallback record.
C38_ClosedSessionNeverRebuilt ==
    (ret.op \in ScrapeOps /\ ret.pre.context = "closed") =>
        /\ NothingLive
        /\ ret.pre.playwright /\ playwright
        /\ context = "closed" /\ browser # "none"

\* a scrape operation after the session was built and cleaned up: its three
\* attempts passed the limiter, found the closed context, and the static
\* default came back
C38_Witness ==
    /\ ret.op \in ScrapeOps /\ ret.n = 3
    /\ obs.cleanups = 1 /\ ret.pre.context = "closed"
    /\ ret.env.f1 = 0
    /\ Len(obs.passes) = 3 /\ obs.opened = 0
    /\ ret.path = "default"

---------------------------------------------------------------------------
(* The network work of one scrape operation (specification SpecLifetime) *)

---------------------------------------------------------------------------
(* Empty payloads in the cache (specification Spec) *)

\* the call found a file of its key, younger than the TTL its cache check
\* applies, whose payload is {}
FreshEmptyAtCall ==
    /\ ValidAtCall
    /\ ret.pre.file[1].content = EmptyDict

\* C40: a fresh cache entry whose payload is empty (the {} that FBref's
\* _scrape_match_page or _scrape_team_page stores when no statistic could be
\* extracted) is a miss for the cache check of the scrape operation, which
\* then fetches again instead of returning a confidence-0.8 record.
C40_EmptyPayloadIsMiss ==
    (Called /\ FreshEmptyAtCall) =>
        /\ ret.path # "cache"
        /\ obs.fetches >= 1 /\ Len(obs.passes) >= 1
        /\ BothPagesLoaded => (ret.path = "live" /\ obs.writes = 1)

\* scrape_match_xg found fbref_xg_<id>.json fresh and holding {}, fetched both
\* pages and returned the live record
C40_Witness ==
    /\ Called /\ FreshEmptyAtCall
    /\ ret.op = "scrape_match_xg"
    /\ ret.pre.memo = <<>>
    /\ BothPagesLoaded
    /\ obs.fetches = 2
    /\ ret.path = "live" /\ ret.rec.v.confidence = 100

=============================================================================
